---- MODULE Spec2Model ----
(***************************************************************************)
(* A model of the stack-table transform engine and of the transform stack  *)
(* codec of src/profile-logic/transforms.js.                               *)
(*                                                                         *)
(* Stack, frame and func indexes are 0-based as in the source; a column is *)
(* a sequence, so row i of column c is c[i + 1].  null is Null and the     *)
(* JavaScript value undefined is Undefined.                                *)
(***************************************************************************)
EXTENDS Integers, Sequences, FiniteSets, TLC

\* Bounds of the model.
MaxStacks == 3
MaxChain == 5
MaxSeqStacks == 2
MaxFuncs == 4
MaxTransforms == 2

Null == -1
Undefined == -2

DefaultCategory == 0

At(col, i) == IF i >= 0 /\ i < Len(col) THEN col[i + 1] ELSE Undefined

Push(col, v) == Append(col, v)

Range(s) == {s[k] : k \in 1..Len(s)}

Reverse(s) == [k \in 1..Len(s) |-> s[Len(s) + 1 - k]]

\* Array.prototype.indexOf: the first position of x, counted from 0, or -1.
IndexOf(seq, x) ==
  IF \E k \in 1..Len(seq) : seq[k] = x
    THEN (CHOOSE k \in 1..Len(seq) :
            seq[k] = x /\ \A j \in 1..(k - 1) : seq[j] # x) - 1
    ELSE -1

(***************************************************************************)
(* The tables of the thread every behaviour starts from.  Funcs 0 and 1    *)
(* are native functions of library resource 0 (func 0 is relevantForJS),   *)
(* func 2 is a JS function of resource 1.  Frames 0 and 1 share func 0.    *)
(* Strings are sequences of characters.                                    *)
(***************************************************************************)
stringTable ==
  << <<"A">>, <<"B">>, <<"X">>, <<"l", "i", "b">>, <<"u", "r", "l">> >>

resourceTable == [length |-> 2, name |-> <<3, 4>>]

getEmptyFuncTable ==
  [length |-> 0, name |-> <<>>, isJS |-> <<>>, relevantForJS |-> <<>>,
   resource |-> <<>>, fileName |-> <<>>, lineNumber |-> <<>>,
   columnNumber |-> <<>>]

InitFuncTable ==
  [length |-> 3,
   name |-> <<0, 1, 2>>,
   isJS |-> <<FALSE, FALSE, TRUE>>,
   relevantForJS |-> <<TRUE, FALSE, FALSE>>,
   resource |-> <<0, 0, 1>>,
   fileName |-> <<Null, Null, 4>>,
   lineNumber |-> <<Null, Null, 1>>,
   columnNumber |-> <<Null, Null, 1>>]

InitFrameTable ==
  [length |-> 4,
   func |-> <<0, 0, 1, 2>>,
   category |-> <<1, 1, 0, Null>>,
   subcategory |-> <<1, 2, 1, Null>>]

getEmptyStackTable ==
  [length |-> 0, prefix |-> <<>>, frame |-> <<>>, category |-> <<>>,
   subcategory |-> <<>>]

(***************************************************************************)
(* The implementation filters.                                             *)
(***************************************************************************)
Implementations == {"combined", "js", "cpp"}

startsWith0x(s) == Len(s) >= 2 /\ s[1] = "0" /\ s[2] = "x"

\* A boolean column read as a condition: a row that was never written is
\* undefined, which is falsy.
TruthyAt(col, i) == i >= 0 /\ i < Len(col) /\ col[i + 1]

FUNC_MATCHES(implementation, thread, funcIndex) ==
  CASE implementation = "combined" -> TRUE
    [] implementation = "cpp" ->
         IF TruthyAt(thread.funcTable.isJS, funcIndex)
           THEN FALSE
           ELSE LET locationString ==
                      At(stringTable, At(thread.funcTable.name, funcIndex))
                    isProbablyJitCode ==
                      /\ At(thread.funcTable.resource, funcIndex) = -1
                      /\ startsWith0x(locationString)
                IN ~isProbablyJitCode
    [] implementation = "js" ->
         \/ TruthyAt(thread.funcTable.isJS, funcIndex)
         \/ TruthyAt(thread.funcTable.relevantForJS, funcIndex)

(***************************************************************************)
(* The old-to-new stack map of a transform: entry i + 1 is the new stack   *)
(* of old stack i, null maps to null and a stack that has no entry yet     *)
(* yields undefined, as Map.get does.                                      *)
(***************************************************************************)
PushStack(table, prefix, frame, category, subcategory) ==
  [length |-> table.length + 1,
   prefix |-> Push(table.prefix, prefix),
   frame |-> Push(table.frame, frame),
   category |-> Push(table.category, category),
   subcategory |-> Push(table.subcategory, subcategory)]

NullMap == [s \in {Null} |-> Null]

StackIndexes(stackTable) == 0..(stackTable.length - 1)

\* Map.get on a map from old stacks (and null) to new stacks.
MapGet(map, stack) == IF stack \in DOMAIN map THEN map[stack] ELSE Undefined

MapSet(map, stack, value) ==
  [s \in DOMAIN map \cup {stack} |-> IF s = stack THEN value ELSE map[s]]

\* The stack updater built from a map: null stays null, a stack without an
\* entry is an error (Undefined stands for the throw).
getMapStackUpdater(map) ==
  [s \in DOMAIN map \cup {Null} |-> IF s = Null THEN Null ELSE map[s]]

\* The thread with its stack table replaced and the stack of every
\* sample-like row converted by convertStack.
updateThreadStacks(thread, newStackTable, convertStack) ==
  [thread EXCEPT
     !.stackTable = newStackTable,
     !.samples = [k \in 1..Len(thread.samples) |->
                    MapGet(convertStack, thread.samples[k])]]

Returned(thread, convertStack) ==
  [threw |-> FALSE, thread |-> thread, convertStack |-> convertStack]

Thrown(thread) == [threw |-> TRUE, thread |-> thread, convertStack |-> NullMap]

\* A threw flag for the updaters that throw on a stack without an entry.
UpdaterThrows(thread, convertStack) ==
  \E k \in 1..Len(thread.samples) :
    MapGet(convertStack, thread.samples[k]) = Undefined

(***************************************************************************)
(* mergeCallNode                                                           *)
(***************************************************************************)
\* A merge that lets every frame that is not on the path pass, whether or
\* not the implementation filter hides it.
mergeCallNodeStepSkipsAll(thread, callNodePath, implementation, acc, stackIndex) ==
  LET stackTable == thread.stackTable
      depthAtCallNodePathLeaf == Len(callNodePath) - 1
      prefix == At(stackTable.prefix, stackIndex)
      frameIndex == At(stackTable.frame, stackIndex)
      category == At(stackTable.category, stackIndex)
      subcategory == At(stackTable.subcategory, stackIndex)
      funcIndex == At(thread.frameTable.func, frameIndex)
      doesPrefixMatch ==
        IF prefix = Null THEN TRUE ELSE TruthyAt(acc.stackMatches, prefix)
      prefixDepth == IF prefix = Null THEN -1 ELSE At(acc.stackDepths, prefix)
      currentFuncOnPath ==
        IF prefixDepth = Undefined THEN Undefined
        ELSE At(callNodePath, prefixDepth + 1)
      inBranch ==
        /\ doesPrefixMatch
        /\ prefixDepth # Undefined
        /\ prefixDepth < depthAtCallNodePathLeaf
      funcOnPath == inBranch /\ currentFuncOnPath = funcIndex
      doMerge == funcOnPath /\ prefixDepth + 1 = depthAtCallNodePathLeaf
      stackDepth ==
        IF funcOnPath /\ ~doMerge THEN prefixDepth + 1 ELSE prefixDepth
      newStackPrefix == MapGet(acc.oldStackToNewStack, prefix)
      newPrefix == IF newStackPrefix = Undefined THEN Null ELSE newStackPrefix
      matched == [acc EXCEPT
                    !.stackMatches = Push(@, inBranch),
                    !.stackDepths = Push(@, stackDepth)]
  IN IF doMerge
       THEN [matched EXCEPT
               !.oldStackToNewStack = MapSet(@, stackIndex, newPrefix)]
       ELSE [matched EXCEPT
               !.newStackTable =
                  PushStack(@, newPrefix, frameIndex, category, subcategory),
               !.oldStackToNewStack =
                  MapSet(@, stackIndex, acc.newStackTable.length)]

mergeCallNodeStep(thread, callNodePath, implementation, acc, stackIndex) ==
  LET stackTable == thread.stackTable
      depthAtCallNodePathLeaf == Len(callNodePath) - 1
      prefix == At(stackTable.prefix, stackIndex)
      frameIndex == At(stackTable.frame, stackIndex)
      category == At(stackTable.category, stackIndex)
      subcategory == At(stackTable.subcategory, stackIndex)
      funcIndex == At(thread.frameTable.func, frameIndex)
      doesPrefixMatch ==
        IF prefix = Null THEN TRUE ELSE TruthyAt(acc.stackMatches, prefix)
      prefixDepth == IF prefix = Null THEN -1 ELSE At(acc.stackDepths, prefix)
      currentFuncOnPath ==
        IF prefixDepth = Undefined THEN Undefined
        ELSE At(callNodePath, prefixDepth + 1)
      inBranch ==
        /\ doesPrefixMatch
        /\ prefixDepth # Undefined
        /\ prefixDepth < depthAtCallNodePathLeaf
      funcOnPath == inBranch /\ currentFuncOnPath = funcIndex
      doMerge == funcOnPath /\ prefixDepth + 1 = depthAtCallNodePathLeaf
      stackDepth ==
        IF funcOnPath /\ ~doMerge THEN prefixDepth + 1 ELSE prefixDepth
      doesMatchCallNodePath ==
        /\ inBranch
        /\ \/ currentFuncOnPath = funcIndex
           \/ ~FUNC_MATCHES(implementation, thread, funcIndex)
      newStackPrefix == MapGet(acc.oldStackToNewStack, prefix)
      newPrefix == IF newStackPrefix = Undefined THEN Null ELSE newStackPrefix
      matched == [acc EXCEPT
                    !.stackMatches = Push(@, doesMatchCallNodePath),
                    !.stackDepths = Push(@, stackDepth)]
  IN IF doMerge
       THEN [matched EXCEPT
               !.oldStackToNewStack = MapSet(@, stackIndex, newPrefix)]
       ELSE [matched EXCEPT
               !.newStackTable =
                  PushStack(@, newPrefix, frameIndex, category, subcategory),
               !.oldStackToNewStack =
                  MapSet(@, stackIndex, acc.newStackTable.length)]

RECURSIVE mergeCallNodeLoop(_, _, _, _, _)
mergeCallNodeLoop(thread, callNodePath, implementation, acc, stackIndex) ==
  IF stackIndex >= thread.stackTable.length THEN acc
  ELSE mergeCallNodeLoop(
         thread, callNodePath, implementation,
         mergeCallNodeStep(thread, callNodePath, implementation, acc,
                           stackIndex),
         stackIndex + 1)

mergeCallNode(thread, callNodePath, implementation) ==
  LET acc == mergeCallNodeLoop(
               thread, callNodePath, implementation,
               [oldStackToNewStack |-> NullMap,
                newStackTable |-> getEmptyStackTable,
                stackDepths |-> <<>>, stackMatches |-> <<>>], 0)
      convertStack == getMapStackUpdater(acc.oldStackToNewStack)
  IN IF UpdaterThrows(thread, convertStack) THEN Thrown(thread)
     ELSE Returned(updateThreadStacks(thread, acc.newStackTable, convertStack),
                   convertStack)

(***************************************************************************)
(* mergeFunction                                                           *)
(***************************************************************************)
\* A merge that writes a kept stack's old prefix index into the new table.
mergeFunctionStepOldPrefix(thread, funcIndexToMerge, acc, stackIndex) ==
  LET stackTable == thread.stackTable
      prefix == At(stackTable.prefix, stackIndex)
      frameIndex == At(stackTable.frame, stackIndex)
      category == At(stackTable.category, stackIndex)
      subcategory == At(stackTable.subcategory, stackIndex)
      funcIndex == At(thread.frameTable.func, frameIndex)
      newStackPrefix == MapGet(acc.oldStackToNewStack, prefix)
      newPrefix == IF newStackPrefix = Undefined THEN Null ELSE newStackPrefix
  IN IF funcIndex = funcIndexToMerge
       THEN [acc EXCEPT
               !.oldStackToNewStack = MapSet(@, stackIndex, newPrefix)]
       ELSE [acc EXCEPT
               !.newStackTable =
                  PushStack(@, prefix, frameIndex, category, subcategory),
               !.oldStackToNewStack =
                  MapSet(@, stackIndex, acc.newStackTable.length)]

\* A merge that hands the merged stack to the stack pushed last instead of
\* the image of its prefix.
mergeFunctionStepUnderLastStack(thread, funcIndexToMerge, acc, stackIndex) ==
  LET stackTable == thread.stackTable
      prefix == At(stackTable.prefix, stackIndex)
      frameIndex == At(stackTable.frame, stackIndex)
      category == At(stackTable.category, stackIndex)
      subcategory == At(stackTable.subcategory, stackIndex)
      funcIndex == At(thread.frameTable.func, frameIndex)
      newStackPrefix == MapGet(acc.oldStackToNewStack, prefix)
      newPrefix == IF newStackPrefix = Undefined THEN Null ELSE newStackPrefix
      lastStack == IF acc.newStackTable.length = 0 THEN Null
                   ELSE acc.newStackTable.length - 1
  IN IF funcIndex = funcIndexToMerge
       THEN [acc EXCEPT
               !.oldStackToNewStack = MapSet(@, stackIndex, lastStack)]
       ELSE [acc EXCEPT
               !.newStackTable =
                  PushStack(@, newPrefix, frameIndex, category, subcategory),
               !.oldStackToNewStack =
                  MapSet(@, stackIndex, acc.newStackTable.length)]

mergeFunctionStep(thread, funcIndexToMerge, acc, stackIndex) ==
  LET stackTable == thread.stackTable
      prefix == At(stackTable.prefix, stackIndex)
      frameIndex == At(stackTable.frame, stackIndex)
      category == At(stackTable.category, stackIndex)
      subcategory == At(stackTable.subcategory, stackIndex)
      funcIndex == At(thread.frameTable.func, frameIndex)
      newStackPrefix == MapGet(acc.oldStackToNewStack, prefix)
      newPrefix == IF newStackPrefix = Undefined THEN Null ELSE newStackPrefix
  IN IF funcIndex = funcIndexToMerge
       THEN [acc EXCEPT
               !.oldStackToNewStack = MapSet(@, stackIndex, newPrefix)]
       ELSE [acc EXCEPT
               !.newStackTable =
                  PushStack(@, newPrefix, frameIndex, category, subcategory),
               !.oldStackToNewStack =
                  MapSet(@, stackIndex, acc.newStackTable.length)]

RECURSIVE mergeFunctionLoop(_, _, _, _)
mergeFunctionLoop(thread, funcIndexToMerge, acc, stackIndex) ==
  IF stackIndex >= thread.stackTable.length THEN acc
  ELSE mergeFunctionLoop(
         thread, funcIndexToMerge,
         mergeFunctionStep(thread, funcIndexToMerge, acc, stackIndex),
         stackIndex + 1)

mergeFunction(thread, funcIndexToMerge) ==
  LET acc == mergeFunctionLoop(
               thread, funcIndexToMerge,
               [oldStackToNewStack |-> NullMap,
                newStackTable |-> getEmptyStackTable], 0)
      convertStack == getMapStackUpdater(acc.oldStackToNewStack)
  IN IF UpdaterThrows(thread, convertStack) THEN Thrown(thread)
     ELSE Returned(updateThreadStacks(thread, acc.newStackTable, convertStack),
                   convertStack)

(***************************************************************************)
(* dropFunction                                                            *)
(***************************************************************************)
\* A loop that marks only the stacks whose own func is the dropped one.
RECURSIVE dropFunctionLoopOwnFunc(_, _, _, _)
dropFunctionLoopOwnFunc(thread, funcIndexToDrop, stackContainsFunc, stackIndex) ==
  IF stackIndex >= thread.stackTable.length THEN stackContainsFunc
  ELSE LET frameIndex == At(thread.stackTable.frame, stackIndex)
           funcIndex == At(thread.frameTable.func, frameIndex)
       IN dropFunctionLoopOwnFunc(
            thread, funcIndexToDrop,
            Push(stackContainsFunc, funcIndex = funcIndexToDrop),
            stackIndex + 1)

RECURSIVE dropFunctionLoop(_, _, _, _)
dropFunctionLoop(thread, funcIndexToDrop, stackContainsFunc, stackIndex) ==
  IF stackIndex >= thread.stackTable.length THEN stackContainsFunc
  ELSE LET prefix == At(thread.stackTable.prefix, stackIndex)
           frameIndex == At(thread.stackTable.frame, stackIndex)
           funcIndex == At(thread.frameTable.func, frameIndex)
           contains ==
             \/ funcIndex = funcIndexToDrop
             \/ prefix # Null /\ TruthyAt(stackContainsFunc, prefix)
       IN dropFunctionLoop(
            thread, funcIndexToDrop,
            Push(stackContainsFunc, contains),
            stackIndex + 1)

\* A drop that moves a sample to the prefix of its stack.
dropFunctionToPrefix(thread, funcIndexToDrop) ==
  LET stackContainsFunc == dropFunctionLoop(thread, funcIndexToDrop, <<>>, 0)
      convertStack ==
        [stack \in StackIndexes(thread.stackTable) \cup {Null} |->
           IF stack # Null /\ TruthyAt(stackContainsFunc, stack)
             THEN At(thread.stackTable.prefix, stack) ELSE stack]
  IN Returned(updateThreadStacks(thread, thread.stackTable, convertStack),
              convertStack)

dropFunction(thread, funcIndexToDrop) ==
  LET stackContainsFunc == dropFunctionLoop(thread, funcIndexToDrop, <<>>, 0)
      convertStack ==
        [stack \in StackIndexes(thread.stackTable) \cup {Null} |->
           IF stack # Null /\ TruthyAt(stackContainsFunc, stack)
             THEN Null ELSE stack]
  IN Returned(updateThreadStacks(thread, thread.stackTable, convertStack),
              convertStack)

(***************************************************************************)
(* collapseResource                                                        *)
(***************************************************************************)
shallowCloneFrameTable(frameTable) == frameTable

shallowCloneFuncTable(funcTable) == funcTable

\* The frame and the func appended for the collapsed resource, copied from
\* the first stack found in it.
PushCollapsedFrame(newFrameTable, frameTable, frameIndex, collapsedFuncIndex) ==
  [length |-> newFrameTable.length + 1,
   category |-> Push(newFrameTable.category, At(frameTable.category, frameIndex)),
   subcategory |->
     Push(newFrameTable.subcategory, At(frameTable.subcategory, frameIndex)),
   func |-> Push(newFrameTable.func, collapsedFuncIndex)]

PushCollapsedFunc(newFuncTable, funcTable, funcIndex, resourceNameIndex) ==
  [newFuncTable EXCEPT
     !.length = @ + 1,
     !.isJS = Push(@, At(funcTable.isJS, funcIndex)),
     !.name = Push(@, resourceNameIndex),
     !.resource = Push(@, At(funcTable.resource, funcIndex)),
     !.fileName = Push(@, At(funcTable.fileName, funcIndex)),
     !.lineNumber = Push(@, Null),
     !.columnNumber = Push(@, Null)]

SetCategory(table, stack, category, subcategory) ==
  [table EXCEPT !.category[stack + 1] = category,
                !.subcategory[stack + 1] = subcategory]

\* A merge that keeps the categories of the first stack collapsed.
MergeCategoryKeepsFirst(table, stack, category, subcategory, defaultCategory) ==
  table

\* The category fallback applied to an existing collapsed stack.
MergeCategory(table, stack, category, subcategory, defaultCategory) ==
  IF At(table.category, stack) # category
    THEN SetCategory(table, stack, defaultCategory, 0)
  ELSE IF At(table.subcategory, stack) # subcategory
    THEN SetCategory(table, stack, At(table.category, stack), 0)
  ELSE table

\* A lookup that never finds the collapsed sibling.
getExistingCollapsedStackNever(acc, prefix) == Undefined

\* The collapsed stack that stacks with this prefix already collapsed into.
getExistingCollapsedStack(acc, prefix) ==
  MapGet(acc.prefixStackToCollapsedStack, prefix)

collapseResourceStep(thread, resourceIndexToCollapse, implementation, defaultCategory, acc, stackIndex) ==
  LET stackTable == thread.stackTable
      funcTable == thread.funcTable
      frameTable == thread.frameTable
      resourceNameIndex == At(resourceTable.name, resourceIndexToCollapse)
      prefix == At(stackTable.prefix, stackIndex)
      frameIndex == At(stackTable.frame, stackIndex)
      category == At(stackTable.category, stackIndex)
      subcategory == At(stackTable.subcategory, stackIndex)
      funcIndex == At(frameTable.func, frameIndex)
      resourceIndex == At(funcTable.resource, funcIndex)
      newStackPrefix == MapGet(acc.oldStackToNewStack, prefix)
      existingCollapsedStack == getExistingCollapsedStack(acc, prefix)
      newStackIndex == acc.newStackTable.length
      firstCollapse == acc.collapsedFrameIndex = Undefined
      collapsedFrameIndex ==
        IF firstCollapse THEN acc.newFrameTable.length
        ELSE acc.collapsedFrameIndex
      collapsedFuncIndex ==
        IF firstCollapse THEN acc.newFuncTable.length
        ELSE acc.collapsedFuncIndex
      prefixFrame == At(acc.newStackTable.frame, newStackPrefix)
      prefixFunc == At(acc.newFrameTable.func, prefixFrame)
      prefixResource == At(acc.newFuncTable.resource, prefixFunc)
  IN IF newStackPrefix = Undefined THEN [acc EXCEPT !.threw = TRUE]
     ELSE IF resourceIndex = resourceIndexToCollapse
       THEN IF newStackPrefix \notin acc.collapsedStacks
         THEN IF existingCollapsedStack = Undefined
           THEN [acc EXCEPT
                   !.collapsedStacks = @ \cup {newStackIndex},
                   !.oldStackToNewStack = MapSet(@, stackIndex, newStackIndex),
                   !.prefixStackToCollapsedStack =
                      MapSet(@, prefix, newStackIndex),
                   !.collapsedFrameIndex = collapsedFrameIndex,
                   !.collapsedFuncIndex = collapsedFuncIndex,
                   !.newFrameTable =
                      IF firstCollapse
                        THEN PushCollapsedFrame(@, frameTable, frameIndex,
                                                collapsedFuncIndex)
                        ELSE @,
                   !.newFuncTable =
                      IF firstCollapse
                        THEN PushCollapsedFunc(@, funcTable, funcIndex,
                                               resourceNameIndex)
                        ELSE @,
                   !.newStackTable =
                      PushStack(@, newStackPrefix, collapsedFrameIndex,
                                category, subcategory)]
           ELSE IF existingCollapsedStack = Null
             THEN [acc EXCEPT !.threw = TRUE]
             ELSE [acc EXCEPT
                     !.oldStackToNewStack =
                        MapSet(@, stackIndex, existingCollapsedStack),
                     !.newStackTable =
                        MergeCategory(@, existingCollapsedStack, category,
                                      subcategory, defaultCategory)]
         ELSE [acc EXCEPT
                 !.oldStackToNewStack = MapSet(@, stackIndex, newStackPrefix)]
       ELSE IF /\ ~FUNC_MATCHES(implementation, thread, funcIndex)
               /\ newStackPrefix # Null
               /\ prefixResource = resourceIndexToCollapse
         THEN [acc EXCEPT
                 !.oldStackToNewStack = MapSet(@, stackIndex, newStackPrefix)]
         ELSE [acc EXCEPT
                 !.newStackTable =
                    PushStack(@, newStackPrefix, frameIndex, category,
                              subcategory),
                 !.oldStackToNewStack = MapSet(@, stackIndex, newStackIndex)]

RECURSIVE collapseResourceLoop(_, _, _, _, _, _)
collapseResourceLoop(thread, resourceIndexToCollapse, implementation, defaultCategory, acc, stackIndex) ==
  IF stackIndex >= thread.stackTable.length \/ acc.threw THEN acc
  ELSE collapseResourceLoop(
         thread, resourceIndexToCollapse, implementation, defaultCategory,
         collapseResourceStep(thread, resourceIndexToCollapse, implementation,
                              defaultCategory, acc, stackIndex),
         stackIndex + 1)

collapseResource(thread, resourceIndexToCollapse, implementation, defaultCategory) ==
  LET acc == collapseResourceLoop(
               thread, resourceIndexToCollapse, implementation, defaultCategory,
               [threw |-> FALSE,
                oldStackToNewStack |-> NullMap,
                prefixStackToCollapsedStack |-> << >>,
                collapsedStacks |-> {},
                newStackTable |-> getEmptyStackTable,
                newFrameTable |-> shallowCloneFrameTable(thread.frameTable),
                newFuncTable |-> shallowCloneFuncTable(thread.funcTable),
                collapsedFrameIndex |-> Undefined,
                collapsedFuncIndex |-> Undefined], 0)
      convertStack == getMapStackUpdater(acc.oldStackToNewStack)
      newThread == [thread EXCEPT !.frameTable = acc.newFrameTable,
                                  !.funcTable = acc.newFuncTable]
  IN IF acc.threw \/ UpdaterThrows(thread, convertStack) THEN Thrown(thread)
     ELSE Returned(
            updateThreadStacks(newThread, acc.newStackTable, convertStack),
            convertStack)

(***************************************************************************)
(* collapseDirectRecursion                                                 *)
(***************************************************************************)
\* A collapse that does not remember a removed stack as part of the run.
collapseDirectRecursionStepForgetsRun(thread, funcToCollapse, implementation, acc, stackIndex) ==
  LET stackTable == thread.stackTable
      prefix == At(stackTable.prefix, stackIndex)
      frameIndex == At(stackTable.frame, stackIndex)
      category == At(stackTable.category, stackIndex)
      subcategory == At(stackTable.subcategory, stackIndex)
      funcIndex == At(thread.frameTable.func, frameIndex)
      newStackPrefix == MapGet(acc.oldStackToNewStack, prefix)
  IN IF /\ prefix \in acc.recursiveStacks
        /\ \/ funcToCollapse = funcIndex
           \/ ~FUNC_MATCHES(implementation, thread, funcIndex)
       THEN IF newStackPrefix = Undefined THEN [acc EXCEPT !.threw = TRUE]
            ELSE [acc EXCEPT
                    !.oldStackToNewStack =
                       MapSet(@, stackIndex, newStackPrefix)]
       ELSE IF newStackPrefix = Undefined THEN [acc EXCEPT !.threw = TRUE]
            ELSE [acc EXCEPT
                    !.newStackTable =
                       PushStack(@, newStackPrefix, frameIndex, category,
                                 subcategory),
                    !.oldStackToNewStack =
                       MapSet(@, stackIndex, acc.newStackTable.length),
                    !.recursiveStacks =
                       IF funcToCollapse = funcIndex
                         THEN @ \cup {stackIndex} ELSE @]

collapseDirectRecursionStep(thread, funcToCollapse, implementation, acc, stackIndex) ==
  LET stackTable == thread.stackTable
      prefix == At(stackTable.prefix, stackIndex)
      frameIndex == At(stackTable.frame, stackIndex)
      category == At(stackTable.category, stackIndex)
      subcategory == At(stackTable.subcategory, stackIndex)
      funcIndex == At(thread.frameTable.func, frameIndex)
      newStackPrefix == MapGet(acc.oldStackToNewStack, prefix)
  IN IF /\ prefix \in acc.recursiveStacks
        /\ \/ funcToCollapse = funcIndex
           \/ ~FUNC_MATCHES(implementation, thread, funcIndex)
       THEN IF newStackPrefix = Undefined THEN [acc EXCEPT !.threw = TRUE]
            ELSE [acc EXCEPT
                    !.oldStackToNewStack =
                       MapSet(@, stackIndex, newStackPrefix),
                    !.recursiveStacks = @ \cup {stackIndex}]
       ELSE IF newStackPrefix = Undefined THEN [acc EXCEPT !.threw = TRUE]
            ELSE [acc EXCEPT
                    !.newStackTable =
                       PushStack(@, newStackPrefix, frameIndex, category,
                                 subcategory),
                    !.oldStackToNewStack =
                       MapSet(@, stackIndex, acc.newStackTable.length),
                    !.recursiveStacks =
                       IF funcToCollapse = funcIndex
                         THEN @ \cup {stackIndex} ELSE @]

RECURSIVE collapseDirectRecursionLoop(_, _, _, _, _)
collapseDirectRecursionLoop(thread, funcToCollapse, implementation, acc, stackIndex) ==
  IF stackIndex >= thread.stackTable.length \/ acc.threw THEN acc
  ELSE collapseDirectRecursionLoop(
         thread, funcToCollapse, implementation,
         collapseDirectRecursionStep(thread, funcToCollapse, implementation,
                                     acc, stackIndex),
         stackIndex + 1)

collapseDirectRecursion(thread, funcToCollapse, implementation) ==
  LET acc == collapseDirectRecursionLoop(
               thread, funcToCollapse, implementation,
               [threw |-> FALSE,
                oldStackToNewStack |-> NullMap,
                recursiveStacks |-> {},
                newStackTable |-> getEmptyStackTable], 0)
      convertStack == getMapStackUpdater(acc.oldStackToNewStack)
  IN IF acc.threw \/ UpdaterThrows(thread, convertStack) THEN Thrown(thread)
     ELSE Returned(updateThreadStacks(thread, acc.newStackTable, convertStack),
                   convertStack)

(***************************************************************************)
(* collapseFunctionSubtree                                                 *)
(***************************************************************************)
\* A collapse that forgets that a collapsed stack's children are collapsed
\* as well.
collapseFunctionSubtreeStepChildrenOnly(thread, funcToCollapse, defaultCategory, acc, stackIndex) ==
  LET stackTable == thread.stackTable
      prefix == At(stackTable.prefix, stackIndex)
      frameIndex == At(stackTable.frame, stackIndex)
      category == At(stackTable.category, stackIndex)
      subcategory == At(stackTable.subcategory, stackIndex)
      funcIndex == At(thread.frameTable.func, frameIndex)
      newStackPrefix == MapGet(acc.oldStackToNewStack, prefix)
  IN IF prefix \in acc.collapsedStacks
       THEN IF newStackPrefix = Undefined THEN [acc EXCEPT !.threw = TRUE]
            ELSE [acc EXCEPT
                    !.oldStackToNewStack =
                       MapSet(@, stackIndex, newStackPrefix),
                    !.newStackTable =
                       IF newStackPrefix # Null
                         THEN MergeCategory(@, newStackPrefix, category,
                                            subcategory, defaultCategory)
                         ELSE @]
       ELSE IF newStackPrefix = Undefined THEN [acc EXCEPT !.threw = TRUE]
            ELSE [acc EXCEPT
                    !.newStackTable =
                       PushStack(@, newStackPrefix, frameIndex, category,
                                 subcategory),
                    !.oldStackToNewStack =
                       MapSet(@, stackIndex, acc.newStackTable.length),
                    !.collapsedStacks =
                       IF funcToCollapse = funcIndex
                         THEN @ \cup {stackIndex} ELSE @]

collapseFunctionSubtreeStep(thread, funcToCollapse, defaultCategory, acc, stackIndex) ==
  LET stackTable == thread.stackTable
      prefix == At(stackTable.prefix, stackIndex)
      frameIndex == At(stackTable.frame, stackIndex)
      category == At(stackTable.category, stackIndex)
      subcategory == At(stackTable.subcategory, stackIndex)
      funcIndex == At(thread.frameTable.func, frameIndex)
      newStackPrefix == MapGet(acc.oldStackToNewStack, prefix)
  IN IF prefix \in acc.collapsedStacks
       THEN IF newStackPrefix = Undefined THEN [acc EXCEPT !.threw = TRUE]
            ELSE [acc EXCEPT
                    !.oldStackToNewStack =
                       MapSet(@, stackIndex, newStackPrefix),
                    !.collapsedStacks = @ \cup {stackIndex},
                    !.newStackTable =
                       IF newStackPrefix # Null
                         THEN MergeCategory(@, newStackPrefix, category,
                                            subcategory, defaultCategory)
                         ELSE @]
       ELSE IF newStackPrefix = Undefined THEN [acc EXCEPT !.threw = TRUE]
            ELSE [acc EXCEPT
                    !.newStackTable =
                       PushStack(@, newStackPrefix, frameIndex, category,
                                 subcategory),
                    !.oldStackToNewStack =
                       MapSet(@, stackIndex, acc.newStackTable.length),
                    !.collapsedStacks =
                       IF funcToCollapse = funcIndex
                         THEN @ \cup {stackIndex} ELSE @]

RECURSIVE collapseFunctionSubtreeLoop(_, _, _, _, _)
collapseFunctionSubtreeLoop(thread, funcToCollapse, defaultCategory, acc, stackIndex) ==
  IF stackIndex >= thread.stackTable.length \/ acc.threw THEN acc
  ELSE collapseFunctionSubtreeLoop(
         thread, funcToCollapse, defaultCategory,
         collapseFunctionSubtreeStep(thread, funcToCollapse, defaultCategory,
                                     acc, stackIndex),
         stackIndex + 1)

collapseFunctionSubtree(thread, funcToCollapse, defaultCategory) ==
  LET acc == collapseFunctionSubtreeLoop(
               thread, funcToCollapse, defaultCategory,
               [threw |-> FALSE,
                oldStackToNewStack |-> NullMap,
                collapsedStacks |-> {},
                newStackTable |-> getEmptyStackTable], 0)
      convertStack == getMapStackUpdater(acc.oldStackToNewStack)
  IN IF acc.threw \/ UpdaterThrows(thread, convertStack) THEN Thrown(thread)
     ELSE Returned(updateThreadStacks(thread, acc.newStackTable, convertStack),
                   convertStack)

(***************************************************************************)
(* focusSubtree                                                            *)
(***************************************************************************)
\* A focus that requires every frame up to the tip to be on the path.
focusSubtreeStepNoSkip(thread, callNodePath, implementation, acc, stackIndex) ==
  LET stackTable == thread.stackTable
      prefixDepth == Len(callNodePath)
      prefix == At(stackTable.prefix, stackIndex)
      prefixMatchesUpTo ==
        IF prefix = Null THEN 0
        ELSE IF prefix >= 0 /\ prefix < Len(acc.stackMatches)
          THEN acc.stackMatches[prefix + 1]
        ELSE IF prefix >= 0 /\ prefix < stackTable.length THEN 0
        ELSE Undefined
      frame == At(stackTable.frame, stackIndex)
      category == At(stackTable.category, stackIndex)
      subcategory == At(stackTable.subcategory, stackIndex)
      funcIndex == At(thread.frameTable.func, frame)
      stackMatchesUpTo ==
        IF prefixMatchesUpTo = -1 THEN -1
        ELSE IF prefixMatchesUpTo = prefixDepth THEN prefixDepth
        ELSE IF funcIndex = At(callNodePath, prefixMatchesUpTo)
          THEN prefixMatchesUpTo + 1
        ELSE -1
      newStackPrefix == MapGet(acc.oldStackToNewStack, prefix)
      newPrefix == IF newStackPrefix = Undefined THEN Null ELSE newStackPrefix
      matched == [acc EXCEPT !.stackMatches = Push(@, stackMatchesUpTo)]
  IN IF prefixMatchesUpTo # -1 /\ stackMatchesUpTo = prefixDepth
       THEN [matched EXCEPT
               !.newStackTable =
                  PushStack(@, newPrefix, frame, category, subcategory),
               !.oldStackToNewStack =
                  MapSet(@, stackIndex, acc.newStackTable.length)]
       ELSE matched

focusSubtreeStep(thread, callNodePath, implementation, acc, stackIndex) ==
  LET stackTable == thread.stackTable
      prefixDepth == Len(callNodePath)
      prefix == At(stackTable.prefix, stackIndex)
      \* stackMatches is an Int32Array: a row not yet written reads 0.
      prefixMatchesUpTo ==
        IF prefix = Null THEN 0
        ELSE IF prefix >= 0 /\ prefix < Len(acc.stackMatches)
          THEN acc.stackMatches[prefix + 1]
        ELSE IF prefix >= 0 /\ prefix < stackTable.length THEN 0
        ELSE Undefined
      frame == At(stackTable.frame, stackIndex)
      category == At(stackTable.category, stackIndex)
      subcategory == At(stackTable.subcategory, stackIndex)
      funcIndex == At(thread.frameTable.func, frame)
      stackMatchesUpTo ==
        IF prefixMatchesUpTo = -1 THEN -1
        ELSE IF prefixMatchesUpTo = prefixDepth THEN prefixDepth
        ELSE IF funcIndex = At(callNodePath, prefixMatchesUpTo)
          THEN prefixMatchesUpTo + 1
        ELSE IF ~FUNC_MATCHES(implementation, thread, funcIndex)
          THEN prefixMatchesUpTo
        ELSE -1
      newStackPrefix == MapGet(acc.oldStackToNewStack, prefix)
      newPrefix == IF newStackPrefix = Undefined THEN Null ELSE newStackPrefix
      matched == [acc EXCEPT !.stackMatches = Push(@, stackMatchesUpTo)]
  IN IF prefixMatchesUpTo # -1 /\ stackMatchesUpTo = prefixDepth
       THEN [matched EXCEPT
               !.newStackTable =
                  PushStack(@, newPrefix, frame, category, subcategory),
               !.oldStackToNewStack =
                  MapSet(@, stackIndex, acc.newStackTable.length)]
       ELSE matched

RECURSIVE focusSubtreeLoop(_, _, _, _, _)
focusSubtreeLoop(thread, callNodePath, implementation, acc, stackIndex) ==
  IF stackIndex >= thread.stackTable.length THEN acc
  ELSE focusSubtreeLoop(
         thread, callNodePath, implementation,
         focusSubtreeStep(thread, callNodePath, implementation, acc,
                          stackIndex),
         stackIndex + 1)

\* A stack updater that leaves a sample under the subtree on its old index.
focusSubtreeConvertStackOldIndex(thread, prefixDepth, acc) ==
  [oldStack \in StackIndexes(thread.stackTable) \cup {Null} |->
     IF oldStack = Null \/ At(acc.stackMatches, oldStack) # prefixDepth
       THEN Null
       ELSE oldStack]

focusSubtreeConvertStack(thread, prefixDepth, acc) ==
  [oldStack \in StackIndexes(thread.stackTable) \cup {Null} |->
     IF oldStack = Null \/ At(acc.stackMatches, oldStack) # prefixDepth
       THEN Null
       ELSE MapGet(acc.oldStackToNewStack, oldStack)]

focusSubtree(thread, callNodePath, implementation) ==
  LET acc == focusSubtreeLoop(
               thread, callNodePath, implementation,
               [oldStackToNewStack |-> NullMap,
                stackMatches |-> <<>>,
                newStackTable |-> getEmptyStackTable], 0)
      convertStack ==
        focusSubtreeConvertStack(thread, Len(callNodePath), acc)
  IN IF UpdaterThrows(thread, convertStack) THEN Thrown(thread)
     ELSE Returned(updateThreadStacks(thread, acc.newStackTable, convertStack),
                   convertStack)

(***************************************************************************)
(* focusInvertedSubtree                                                    *)
(***************************************************************************)
RECURSIVE convertStackInvertedNoSkip(_, _, _, _, _)
convertStackInvertedNoSkip(thread, postfixCallNodePath, implementation, stack, matchesUpToDepth) ==
  IF stack = Null \/ stack = Undefined THEN Null
  ELSE LET frame == At(thread.stackTable.frame, stack)
           funcIndex == At(thread.frameTable.func, frame)
       IN IF funcIndex = At(postfixCallNodePath, matchesUpToDepth)
            THEN IF matchesUpToDepth + 1 = Len(postfixCallNodePath)
                   THEN stack
                   ELSE convertStackInvertedNoSkip(
                          thread, postfixCallNodePath, implementation,
                          At(thread.stackTable.prefix, stack),
                          matchesUpToDepth + 1)
          ELSE Null

RECURSIVE convertStackInverted(_, _, _, _, _)
convertStackInverted(thread, postfixCallNodePath, implementation, stack, matchesUpToDepth) ==
  IF stack = Null \/ stack = Undefined THEN Null
  ELSE LET frame == At(thread.stackTable.frame, stack)
           funcIndex == At(thread.frameTable.func, frame)
       IN IF funcIndex = At(postfixCallNodePath, matchesUpToDepth)
            THEN IF matchesUpToDepth + 1 = Len(postfixCallNodePath)
                   THEN stack
                   ELSE convertStackInverted(
                          thread, postfixCallNodePath, implementation,
                          At(thread.stackTable.prefix, stack),
                          matchesUpToDepth + 1)
          ELSE IF FUNC_MATCHES(implementation, thread, funcIndex)
            THEN Null
          ELSE convertStackInverted(
                 thread, postfixCallNodePath, implementation,
                 At(thread.stackTable.prefix, stack), matchesUpToDepth)

focusInvertedSubtree(thread, postfixCallNodePath, implementation) ==
  LET convertStack ==
        [stackIndex \in StackIndexes(thread.stackTable) \cup {Null} |->
           IF stackIndex = Null THEN Null
           ELSE convertStackInverted(thread, postfixCallNodePath,
                                     implementation, stackIndex, 0)]
  IN Returned(updateThreadStacks(thread, thread.stackTable, convertStack),
              convertStack)

(***************************************************************************)
(* focusFunction                                                           *)
(***************************************************************************)
\* A focus that starts a new root only at a root of the old table.
focusFunctionStepOldRoots(thread, funcIndexToFocus, acc, stackIndex) ==
  LET stackTable == thread.stackTable
      prefix == At(stackTable.prefix, stackIndex)
      frameIndex == At(stackTable.frame, stackIndex)
      category == At(stackTable.category, stackIndex)
      subcategory == At(stackTable.subcategory, stackIndex)
      funcIndex == At(thread.frameTable.func, frameIndex)
      matchesFocusFunc == funcIndex = funcIndexToFocus /\ prefix = Null
      newPrefix == MapGet(acc.oldStackToNewStack, prefix)
  IN IF newPrefix = Undefined THEN [acc EXCEPT !.threw = TRUE]
     ELSE IF newPrefix # Null \/ matchesFocusFunc
       THEN [acc EXCEPT
               !.newStackTable =
                  PushStack(@, newPrefix, frameIndex, category, subcategory),
               !.oldStackToNewStack =
                  MapSet(@, stackIndex, acc.newStackTable.length)]
       ELSE [acc EXCEPT !.oldStackToNewStack = MapSet(@, stackIndex, Null)]

focusFunctionStep(thread, funcIndexToFocus, acc, stackIndex) ==
  LET stackTable == thread.stackTable
      prefix == At(stackTable.prefix, stackIndex)
      frameIndex == At(stackTable.frame, stackIndex)
      category == At(stackTable.category, stackIndex)
      subcategory == At(stackTable.subcategory, stackIndex)
      funcIndex == At(thread.frameTable.func, frameIndex)
      matchesFocusFunc == funcIndex = funcIndexToFocus
      newPrefix == MapGet(acc.oldStackToNewStack, prefix)
  IN IF newPrefix = Undefined THEN [acc EXCEPT !.threw = TRUE]
     ELSE IF newPrefix # Null \/ matchesFocusFunc
       THEN [acc EXCEPT
               !.newStackTable =
                  PushStack(@, newPrefix, frameIndex, category, subcategory),
               !.oldStackToNewStack =
                  MapSet(@, stackIndex, acc.newStackTable.length)]
       ELSE [acc EXCEPT !.oldStackToNewStack = MapSet(@, stackIndex, Null)]

RECURSIVE focusFunctionLoop(_, _, _, _)
focusFunctionLoop(thread, funcIndexToFocus, acc, stackIndex) ==
  IF stackIndex >= thread.stackTable.length \/ acc.threw THEN acc
  ELSE focusFunctionLoop(
         thread, funcIndexToFocus,
         focusFunctionStep(thread, funcIndexToFocus, acc, stackIndex),
         stackIndex + 1)

focusFunction(thread, funcIndexToFocus) ==
  LET acc == focusFunctionLoop(
               thread, funcIndexToFocus,
               [threw |-> FALSE,
                oldStackToNewStack |-> NullMap,
                newStackTable |-> getEmptyStackTable], 0)
      convertStack == getMapStackUpdater(acc.oldStackToNewStack)
  IN IF acc.threw \/ UpdaterThrows(thread, convertStack) THEN Thrown(thread)
     ELSE Returned(updateThreadStacks(thread, acc.newStackTable, convertStack),
                   convertStack)

(***************************************************************************)
(* applyTransform                                                          *)
(***************************************************************************)
applyTransform(thread, transform, defaultCategory) ==
  CASE transform.type = "focus-subtree" ->
         IF transform.inverted
           THEN focusInvertedSubtree(thread, transform.callNodePath,
                                     transform.implementation)
           ELSE focusSubtree(thread, transform.callNodePath,
                             transform.implementation)
    [] transform.type = "merge-call-node" ->
         mergeCallNode(thread, transform.callNodePath,
                       transform.implementation)
    [] transform.type = "merge-function" ->
         mergeFunction(thread, transform.funcIndex)
    [] transform.type = "drop-function" ->
         dropFunction(thread, transform.funcIndex)
    [] transform.type = "focus-function" ->
         focusFunction(thread, transform.funcIndex)
    [] transform.type = "collapse-resource" ->
         collapseResource(thread, transform.resourceIndex,
                          transform.implementation, defaultCategory)
    [] transform.type = "collapse-direct-recursion" ->
         collapseDirectRecursion(thread, transform.funcIndex,
                                 transform.implementation)
    [] transform.type = "collapse-function-subtree" ->
         collapseFunctionSubtree(thread, transform.funcIndex, defaultCategory)

(***************************************************************************)
(* The threads a behaviour starts from: every stack table of at most       *)
(* MaxStacks rows, and every single call path of at most MaxChain rows,    *)
(* whose prefixes precede their rows, over the frames of InitFrameTable.   *)
(* Categories are inherited as the stack table builder does: the frame's   *)
(* own category, else the prefix's, else the default category.             *)
(***************************************************************************)
PrefixColumns(n) ==
  {p \in [1..n -> Null..(n - 2)] : \A k \in 1..n : p[k] < k - 1}

ChainPrefix(n) == [k \in 1..n |-> IF k = 1 THEN Null ELSE k - 2]

AllFrames == 0..(InitFrameTable.length - 1)

\* One frame of each func.
ChainFrames == {0, 2, 3}

RECURSIVE InheritCategories(_, _, _, _)
InheritCategories(prefix, frame, defaultCategory, table) ==
  IF table.length >= Len(prefix) THEN table
  ELSE LET i == table.length
           frameCategory == At(InitFrameTable.category, frame[i + 1])
           category ==
             IF frameCategory # Null THEN frameCategory
             ELSE IF prefix[i + 1] = Null THEN defaultCategory
             ELSE At(table.category, prefix[i + 1])
           subcategory ==
             IF frameCategory # Null
               THEN At(InitFrameTable.subcategory, frame[i + 1])
             ELSE IF prefix[i + 1] = Null THEN 0
             ELSE At(table.subcategory, prefix[i + 1])
       IN InheritCategories(
            prefix, frame, defaultCategory,
            PushStack(table, prefix[i + 1], frame[i + 1], category,
                      subcategory))

\* One sample without a stack, one sample per stack, and a second sample on
\* the last stack.
AllStacksSamples(n) == [k \in 1..(n + 2) |-> IF k = n + 2 THEN n - 1 ELSE k - 2]

BuildThread(prefix, frame) ==
  [stackTable |->
     InheritCategories(prefix, frame, DefaultCategory, getEmptyStackTable),
   frameTable |-> InitFrameTable,
   funcTable |-> InitFuncTable,
   samples |-> AllStacksSamples(Len(prefix))]

\* Trees of up to three stacks are built over all four frames; larger trees
\* over the frames of the native func the js filter hides and of the JS
\* func, which keeps their number within reach.
TreeThreads(n) ==
  {BuildThread(prefix, frame) :
     prefix \in PrefixColumns(n),
     frame \in [1..n -> IF n <= 3 THEN AllFrames ELSE {2, 3}]}

\* Trees with one frame of each func; trees of more than two stacks over
\* the same two frames as above.
FuncTreeThreads(n) ==
  {BuildThread(prefix, frame) :
     prefix \in PrefixColumns(n),
     frame \in [1..n -> IF n <= 2 THEN ChainFrames ELSE {2, 3}]}

\* Chains with one frame of each func; chains of more than five stacks over
\* the same two frames.
ChainThreads(n) ==
  {BuildThread(ChainPrefix(n), frame) :
     frame \in [1..n -> IF n <= 5 THEN ChainFrames ELSE {2, 3}]}

(***************************************************************************)
(* The transforms a behaviour may apply.  A call node path is one the call *)
(* tree of the thread offers: the call path of a stack, as it is or        *)
(* filtered by an implementation, the empty path, or a path through a func *)
(* that no frame has.  An inverted path is read from a stack towards the   *)
(* root.                                                                   *)
(***************************************************************************)
funcOfStack(thread, stack) ==
  At(thread.frameTable.func, At(thread.stackTable.frame, stack))

RECURSIVE callNodePathOfStack(_, _)
callNodePathOfStack(thread, stack) ==
  IF stack = Null THEN <<>>
  ELSE Append(callNodePathOfStack(thread, At(thread.stackTable.prefix, stack)),
              funcOfStack(thread, stack))

filterCallNodePathByImplementation(thread, implementationFilter, callNodePath) ==
  LET Keep(funcIndex) == FUNC_MATCHES(implementationFilter, thread, funcIndex)
  IN SelectSeq(callNodePath, Keep)

(***************************************************************************)
(* applyTransformToCallNodePath: the call node path of the transformed     *)
(* tree that a call node path of the untransformed tree turns into.        *)
(***************************************************************************)
\* Array.prototype.slice(begin, end): a negative index counts from the end.
slice(array, begin, end) ==
  LET from(i) == IF i < 0 THEN (IF Len(array) + i < 0 THEN 0 ELSE Len(array) + i)
                 ELSE IF i > Len(array) THEN Len(array) ELSE i
  IN SubSeq(array, from(begin) + 1, from(end))

_callNodePathHasPrefixPath(prefixPath, callNodePath) ==
  /\ Len(prefixPath) <= Len(callNodePath)
  /\ \A i \in 0..(Len(prefixPath) - 1) :
       At(prefixPath, i) = At(callNodePath, i)

\* A path that loses the whole prefix, its last element included.
_removePrefixPathFromCallNodePathWhole(prefixPath, callNodePath) ==
  IF _callNodePathHasPrefixPath(prefixPath, callNodePath)
    THEN slice(callNodePath, Len(prefixPath), Len(callNodePath))
    ELSE <<>>

_removePrefixPathFromCallNodePath(prefixPath, callNodePath) ==
  IF _callNodePathHasPrefixPath(prefixPath, callNodePath)
    THEN slice(callNodePath, Len(prefixPath) - 1, Len(callNodePath))
    ELSE <<>>

_startCallNodePathWithFunction(funcIndex, callNodePath) ==
  LET startIndex == IndexOf(callNodePath, funcIndex)
  IN IF startIndex = -1 THEN <<>>
     ELSE slice(callNodePath, startIndex, Len(callNodePath))

_mergeNodeInCallNodePath(prefixPath, callNodePath) ==
  LET kept == {i \in 0..(Len(callNodePath) - 1) : i # Len(prefixPath) - 1}
  IN IF _callNodePathHasPrefixPath(prefixPath, callNodePath)
       THEN [k \in 1..Cardinality(kept) |->
               At(callNodePath,
                  CHOOSE i \in kept :
                    Cardinality({j \in kept : j < i}) = k - 1)]
       ELSE callNodePath

_mergeFunctionInCallNodePath(funcIndex, callNodePath) ==
  LET Keep(nodeFunc) == nodeFunc # funcIndex
  IN SelectSeq(callNodePath, Keep)

_dropFunctionInCallNodePath(funcIndex, callNodePath) ==
  IF funcIndex \in Range(callNodePath) THEN <<>> ELSE callNodePath

_collapseResourceInCallNodePath(resourceIndex, collapsedFuncIndex, funcTable, callNodePath) ==
  LET path == [k \in 1..Len(callNodePath) |->
                 IF At(funcTable.resource, callNodePath[k]) = resourceIndex
                   THEN collapsedFuncIndex ELSE callNodePath[k]]
      kept == {pathIndex \in 0..(Len(path) - 1) :
                 \/ At(path, pathIndex) # At(path, pathIndex - 1)
                 \/ At(path, pathIndex) # collapsedFuncIndex}
  IN [k \in 1..Cardinality(kept) |->
        At(path, CHOOSE i \in kept : Cardinality({j \in kept : j < i}) = k - 1)]

RECURSIVE collapseDirectRecursionInCallNodePathLoop(_, _, _, _, _)
collapseDirectRecursionInCallNodePathLoop(funcIndex, callNodePath, newPath, previousFunc, i) ==
  IF i >= Len(callNodePath) THEN newPath
  ELSE LET pathFunc == At(callNodePath, i)
       IN collapseDirectRecursionInCallNodePathLoop(
            funcIndex, callNodePath,
            IF pathFunc # funcIndex \/ pathFunc # previousFunc
              THEN Push(newPath, pathFunc) ELSE newPath,
            pathFunc, i + 1)

_collapseDirectRecursionInCallNodePath(funcIndex, callNodePath) ==
  collapseDirectRecursionInCallNodePathLoop(funcIndex, callNodePath, <<>>,
                                            Undefined, 0)

_collapseFunctionSubtreeInCallNodePath(funcIndex, callNodePath) ==
  LET index == IndexOf(callNodePath, funcIndex)
  IN IF index = -1 THEN callNodePath ELSE slice(callNodePath, 0, index + 1)

applyTransformToCallNodePath(callNodePath, t, transformedThread) ==
  CASE t.type = "focus-subtree" ->
         _removePrefixPathFromCallNodePath(t.callNodePath, callNodePath)
    [] t.type = "focus-function" ->
         _startCallNodePathWithFunction(t.funcIndex, callNodePath)
    [] t.type = "merge-call-node" ->
         _mergeNodeInCallNodePath(t.callNodePath, callNodePath)
    [] t.type = "merge-function" ->
         _mergeFunctionInCallNodePath(t.funcIndex, callNodePath)
    [] t.type = "drop-function" ->
         _dropFunctionInCallNodePath(t.funcIndex, callNodePath)
    [] t.type = "collapse-resource" ->
         _collapseResourceInCallNodePath(
           t.resourceIndex, t.collapsedFuncIndex,
           transformedThread.funcTable, callNodePath)
    [] t.type = "collapse-direct-recursion" ->
         _collapseDirectRecursionInCallNodePath(t.funcIndex, callNodePath)
    [] t.type = "collapse-function-subtree" ->
         _collapseFunctionSubtreeInCallNodePath(t.funcIndex, callNodePath)

\* Func and resource parameters include one index that no row uses.
FuncParams(thread) == 0..thread.funcTable.length

ResourceParams == 0..resourceTable.length

StackPaths(thread) ==
  {callNodePathOfStack(thread, s) : s \in StackIndexes(thread.stackTable)}

CallNodePaths(thread) ==
  {<<>>, <<thread.funcTable.length>>}
    \cup StackPaths(thread)
    \cup {filterCallNodePathByImplementation(thread, i, p) :
            i \in Implementations, p \in StackPaths(thread)}

InvertedCallNodePaths(thread) ==
  {<<>>, <<thread.funcTable.length>>}
    \cup UNION {{Reverse(SubSeq(p, k, Len(p))) : k \in 1..Len(p)} :
                   p \in StackPaths(thread)}

FuncTransforms(thread, type) ==
  {[type |-> type, funcIndex |-> f] : f \in FuncParams(thread)}

FocusSubtreeTransforms(thread) ==
  {[type |-> "focus-subtree", implementation |-> i, callNodePath |-> p,
    inverted |-> FALSE] :
     i \in Implementations, p \in CallNodePaths(thread)}

FocusInvertedSubtreeTransforms(thread) ==
  {[type |-> "focus-subtree", implementation |-> i, callNodePath |-> p,
    inverted |-> TRUE] :
     i \in Implementations, p \in InvertedCallNodePaths(thread)}

MergeCallNodeTransforms(thread) ==
  {[type |-> "merge-call-node", implementation |-> i, callNodePath |-> p] :
     i \in Implementations, p \in CallNodePaths(thread)}

\* collapsedFuncIndex is the func the transform will append.
CollapseResourceTransforms(thread) ==
  {[type |-> "collapse-resource", resourceIndex |-> r,
    collapsedFuncIndex |-> thread.funcTable.length, implementation |-> i] :
     r \in ResourceParams, i \in Implementations}

CollapseDirectRecursionTransforms(thread) ==
  {[type |-> "collapse-direct-recursion", funcIndex |-> f,
    implementation |-> i] :
     f \in FuncParams(thread), i \in Implementations}

Transforms(thread) ==
  FocusSubtreeTransforms(thread)
    \cup FocusInvertedSubtreeTransforms(thread)
    \cup MergeCallNodeTransforms(thread)
    \cup FuncTransforms(thread, "merge-function")
    \cup FuncTransforms(thread, "drop-function")
    \cup FuncTransforms(thread, "focus-function")
    \cup CollapseResourceTransforms(thread)
    \cup CollapseDirectRecursionTransforms(thread)
    \cup FuncTransforms(thread, "collapse-function-subtree")

VARIABLES thread, oldThread, transform, oldStackToNewStack, pc, applied,
          urlStack, urlString, parsedStack,
          callNodeTable, callTree, selectedPath, returnedPath,
          zeeCallbacks, promises, messages

codecVars == <<urlStack, urlString, parsedStack>>

\* The call tree handed to invertCallNodePath and the state of the
\* compression worker's callers.
otherVars == <<callNodeTable, callTree, selectedPath, returnedPath,
               zeeCallbacks, promises, messages>>

vars == <<thread, oldThread, transform, oldStackToNewStack, pc, applied,
          codecVars, otherVars>>

\* No call tree is selected and no request was made of the worker.
NothingElse ==
  /\ callNodeTable = [length |-> 0, prefix |-> <<>>, func |-> <<>>]
  /\ callTree = <<>>
  /\ selectedPath = <<>>
  /\ returnedPath = <<>>
  /\ zeeCallbacks = <<>>
  /\ promises = <<>>
  /\ messages = {}

NoTransform == [type |-> "none"]

Loaded(threads) ==
  /\ thread \in threads
  /\ oldThread = thread
  /\ transform = NoTransform
  /\ oldStackToNewStack = NullMap
  /\ pc = "loaded"
  /\ applied = 0
  /\ urlStack = <<>>
  /\ urlString = <<>>
  /\ parsedStack = <<>>
  /\ NothingElse

Init == Loaded(UNION {TreeThreads(n) : n \in 0..MaxStacks}
                 \cup UNION {ChainThreads(n) : n \in 0..MaxChain})

\* A transform that would pass the input's frame and func tables on to
\* collapse-resource's result without cloning them.
sharedTablesNoClone(t) ==
  CASE t.type = "drop-function" -> {"stackTable", "frameTable", "funcTable"}
    [] t.type = "focus-subtree" /\ t.inverted ->
         {"stackTable", "frameTable", "funcTable"}
    [] OTHER -> {"frameTable", "funcTable"}

\* The tables of the returned thread that are the input thread's own
\* objects.  drop-function and the inverted focus-subtree hand the input's
\* stack table to updateThreadStacks; collapse-resource returns clones of
\* the frame and func tables; every other table of a result is built
\* during the call.
sharedTables(t) ==
  CASE t.type = "collapse-resource" -> {}
    [] t.type = "drop-function" -> {"stackTable", "frameTable", "funcTable"}
    [] t.type = "focus-subtree" /\ t.inverted ->
         {"stackTable", "frameTable", "funcTable"}
    [] OTHER -> {"frameTable", "funcTable"}

\* The input thread as it reads once the call has returned: a table it
\* shares with the result holds what the result holds.
inputAfterCall(t, input, returned) ==
  [k \in DOMAIN input |->
     IF k \in sharedTables(t) THEN returned[k] ELSE input[k]]

\* One call of applyTransform on the loaded thread; the call's input, its
\* stack map and its result are kept.
Apply(t) ==
  /\ \E result \in {applyTransform(thread, t, DefaultCategory)} :
       /\ thread' = result.thread
       /\ oldStackToNewStack' = result.convertStack
       /\ pc' = IF result.threw THEN "threw" ELSE "transformed"
       /\ oldThread' = IF result.threw THEN thread
                       ELSE inputAfterCall(t, thread, result.thread)
  /\ transform' = t
  /\ applied' = applied + 1
  /\ UNCHANGED <<codecVars, otherVars>>

FocusSubtree ==
  /\ pc = "loaded"
  /\ \E t \in FocusSubtreeTransforms(thread) : Apply(t)

FocusInvertedSubtree ==
  /\ pc = "loaded"
  /\ \E t \in FocusInvertedSubtreeTransforms(thread) : Apply(t)

MergeCallNode ==
  /\ pc = "loaded"
  /\ \E t \in MergeCallNodeTransforms(thread) : Apply(t)

MergeFunction ==
  /\ pc = "loaded"
  /\ \E t \in FuncTransforms(thread, "merge-function") : Apply(t)

DropFunction ==
  /\ pc = "loaded"
  /\ \E t \in FuncTransforms(thread, "drop-function") : Apply(t)

FocusFunction ==
  /\ pc = "loaded"
  /\ \E t \in FuncTransforms(thread, "focus-function") : Apply(t)

CollapseResource ==
  /\ pc = "loaded"
  /\ \E t \in CollapseResourceTransforms(thread) : Apply(t)

CollapseDirectRecursion ==
  /\ pc = "loaded"
  /\ \E t \in CollapseDirectRecursionTransforms(thread) : Apply(t)

CollapseFunctionSubtree ==
  /\ pc = "loaded"
  /\ \E t \in FuncTransforms(thread, "collapse-function-subtree") : Apply(t)

Next ==
  \/ FocusSubtree
  \/ FocusInvertedSubtree
  \/ MergeCallNode
  \/ MergeFunction
  \/ DropFunction
  \/ FocusFunction
  \/ CollapseResource
  \/ CollapseDirectRecursion
  \/ CollapseFunctionSubtree

Spec == Init /\ [][Next]_vars

(***************************************************************************)
(* Threads whose stack table is not ordered: some stack has a prefix with   *)
(* a higher index than its own.  Every stack still reaches a root.         *)
(***************************************************************************)
UnorderedThreads(n) ==
  LET RECURSIVE ReachesRoot(_, _, _)
      ReachesRoot(p, k, steps) ==
        IF k = Null THEN TRUE
        ELSE IF steps = 0 THEN FALSE
        ELSE ReachesRoot(p, p[k + 1], steps - 1)
      Columns ==
        {p \in [1..n -> Null..(n - 1)] :
           /\ \E k \in 1..n : p[k] > k - 1
           /\ \A k \in 1..n : ReachesRoot(p, k - 1, n)}
  IN {BuildThread(prefix, frame) :
        prefix \in Columns,
        frame \in [1..n -> IF n <= 3 THEN {0, 1, 2} ELSE {0, 2}]}

InitUnordered == Loaded(UNION {UnorderedThreads(n) : n \in 2..MaxStacks})

SpecUnordered == InitUnordered /\ [][Next]_vars

\* The two focus-subtree transforms alone.
NextFocus ==
  \/ FocusSubtree
  \/ FocusInvertedSubtree

SpecFocus == Init /\ [][NextFocus]_vars

\* collapse-resource alone.
NextResource == CollapseResource

SpecResource == Init /\ [][NextResource]_vars

(***************************************************************************)
(* A transform stack applied to a thread, one transform after another, as  *)
(* the thread selectors do: each step applies one more transform to the    *)
(* thread the previous step returned.  applied counts the steps, up to 2.  *)
(* collapse-resource appends a func each time, so the func table is capped.*)
(***************************************************************************)
ApplyTransformStack ==
  /\ pc \in {"loaded", "stacked"}
  /\ \E t \in Transforms(thread) :
       /\ t.type = "collapse-resource" => thread.funcTable.length < MaxFuncs
       /\ \E result \in {applyTransform(thread, t, DefaultCategory)} :
            /\ ~result.threw
            /\ thread' = result.thread
  /\ pc' = "stacked"
  /\ applied' = IF applied < 2 THEN applied + 1 ELSE applied
  /\ UNCHANGED <<oldThread, transform, oldStackToNewStack, codecVars,
                 otherVars>>

InitStack == Loaded(UNION {FuncTreeThreads(n) : n \in 0..MaxSeqStacks})

NextStack == ApplyTransformStack

SpecStack == InitStack /\ [][NextStack]_vars

(***************************************************************************)
(* A transform applied to its own output: the second call of applyTransform *)
(* gets the thread the first call returned and the same transform.         *)
(* oldThread then holds the output of the first call.                      *)
(***************************************************************************)
ApplyAgain ==
  /\ pc = "transformed"
  /\ \E result \in {applyTransform(thread, transform, DefaultCategory)} :
       /\ thread' = result.thread
       /\ oldStackToNewStack' = result.convertStack
       /\ pc' = IF result.threw THEN "threw" ELSE "again"
  /\ oldThread' = thread
  /\ applied' = applied + 1
  /\ UNCHANGED <<transform, codecVars, otherVars>>

NextTwice ==
  \/ DropFunction
  \/ MergeFunction
  \/ FocusFunction
  \/ CollapseFunctionSubtree
  \/ CollapseDirectRecursion
  \/ ApplyAgain

SpecTwice == Init /\ [][NextTwice]_vars

(***************************************************************************)
(* The transform stack codec.  A string is a sequence of characters.       *)
(***************************************************************************)
NaN == -3

DecimalDigits == <<"0", "1", "2", "3", "4", "5", "6", "7", "8", "9">>

\* The decimal digits a template literal gives a non-negative integer.
RECURSIVE numberToString(_)
numberToString(n) ==
  IF n < 10 THEN <<DecimalDigits[n + 1]>>
  ELSE Append(numberToString(n \div 10), DecimalDigits[(n % 10) + 1])

Str(word) ==
  CASE word = "combined" -> <<"c", "o", "m", "b", "i", "n", "e", "d">>
    [] word = "js" -> <<"j", "s">>
    [] word = "cpp" -> <<"c", "p", "p">>
    [] word = "f" -> <<"f">>
    [] word = "ff" -> <<"f", "f">>
    [] word = "mcn" -> <<"m", "c", "n">>
    [] word = "mf" -> <<"m", "f">>
    [] word = "df" -> <<"d", "f">>
    [] word = "cr" -> <<"c", "r">>
    [] word = "rec" -> <<"r", "e", "c">>
    [] word = "cfs" -> <<"c", "f", "s">>

TransformTypes ==
  <<"focus-subtree", "focus-function", "merge-call-node", "merge-function",
    "drop-function", "collapse-resource", "collapse-direct-recursion",
    "collapse-function-subtree">>

TRANSFORM_TO_SHORT_KEY(type) ==
  CASE type = "focus-subtree" -> Str("f")
    [] type = "focus-function" -> Str("ff")
    [] type = "merge-call-node" -> Str("mcn")
    [] type = "merge-function" -> Str("mf")
    [] type = "drop-function" -> Str("df")
    [] type = "collapse-resource" -> Str("cr")
    [] type = "collapse-direct-recursion" -> Str("rec")
    [] type = "collapse-function-subtree" -> Str("cfs")

\* The transform type of a short key, Undefined for any other key.
SHORT_KEY_TO_TRANSFORM(shortKey) ==
  IF \E k \in 1..Len(TransformTypes) :
       TRANSFORM_TO_SHORT_KEY(TransformTypes[k]) = shortKey
    THEN TransformTypes[CHOOSE k \in 1..Len(TransformTypes) :
                          TRANSFORM_TO_SHORT_KEY(TransformTypes[k]) = shortKey]
    ELSE "undefined"

convertToTransformType(type) ==
  IF \E k \in 1..Len(TransformTypes) : TransformTypes[k] = type
    THEN type ELSE "null"

toValidImplementationFilter(implementation) ==
  IF implementation = Str("cpp") THEN "cpp"
  ELSE IF implementation = Str("js") THEN "js"
  ELSE "combined"

\* String.prototype.split on a one-character separator.
RECURSIVE Split(_, _)
Split(s, sep) ==
  IF \A k \in 1..Len(s) : s[k] # sep THEN <<s>>
  ELSE LET k == CHOOSE k \in 1..Len(s) :
                  s[k] = sep /\ \A j \in 1..(k - 1) : s[j] # sep
       IN <<SubSeq(s, 1, k - 1)>> \o Split(SubSeq(s, k + 1, Len(s)), sep)

\* Array.prototype.join.
RECURSIVE Join(_, _)
Join(parts, sep) ==
  IF parts = <<>> THEN <<>>
  ELSE IF Len(parts) = 1 THEN parts[1]
  ELSE parts[1] \o <<sep>> \o Join(Tail(parts), sep)

\* An element of a destructured tuple: undefined past its end.  The
\* undefined string is told from every string, whose elements are single
\* characters.
UndefinedString == <<"undefined">>

Field(tuple, k) == IF k <= Len(tuple) THEN tuple[k] ELSE UndefinedString

\* parseInt(s, 10): leading blanks and a sign are skipped, the digits that
\* follow are read up to the first other character; NaN when there is none.
RECURSIVE parseDigits(_, _, _)
parseDigits(s, k, value) ==
  IF k <= Len(s) /\ IndexOf(DecimalDigits, s[k]) >= 0
    THEN parseDigits(s, k + 1, 10 * value + IndexOf(DecimalDigits, s[k]))
    ELSE value

RECURSIVE skipBlanks(_, _)
skipBlanks(s, k) ==
  IF k <= Len(s) /\ s[k] = " " THEN skipBlanks(s, k + 1) ELSE k

parseInt(s) ==
  IF s = UndefinedString THEN NaN
  ELSE LET b == skipBlanks(s, 1)
           signed == b <= Len(s) /\ s[b] \in {"+", "-"}
           d == IF signed THEN b + 1 ELSE b
           magnitude == parseDigits(s, d, 0)
       IN IF d > Len(s) \/ IndexOf(DecimalDigits, s[d]) < 0 THEN NaN
          ELSE IF signed /\ s[b] = "-" THEN 0 - magnitude
          ELSE magnitude

isNaN(v) == v = NaN

(***************************************************************************)
(* The call node path encoding: each number is written in base 32, most    *)
(* significant digit first, every digit but the last marked by adding 32,  *)
(* and each digit (0..63) is one character of encodingChars.               *)
(***************************************************************************)
encodingChars ==
  <<"0", "1", "2", "3", "4", "5", "6", "7", "8", "9",
    "a", "b", "c", "d", "e", "f", "g", "h", "i", "j", "k", "l", "m",
    "n", "o", "p", "q", "r", "s", "t", "u", "v", "w", "x", "y", "z",
    "A", "B", "C", "D", "E", "F", "G", "H", "I", "J", "K", "L", "M",
    "N", "O", "P", "Q", "R", "S", "T", "U", "V", "W", "X", "Y", "Z",
    ".", "_">>

RECURSIVE encodeLeadingDigits(_)
encodeLeadingDigits(x) ==
  IF x = 0 THEN <<>>
  ELSE Append(encodeLeadingDigits(x \div 32), encodingChars[32 + (x % 32) + 1])

encodeUint(value) ==
  Append(encodeLeadingDigits(value \div 32), encodingChars[(value % 32) + 1])

RECURSIVE encodeUintArrayForUrlComponent(_)
encodeUintArrayForUrlComponent(numbers) ==
  IF numbers = <<>> THEN <<>>
  ELSE encodeUint(numbers[1]) \o encodeUintArrayForUrlComponent(Tail(numbers))

RECURSIVE decodeUintArrayLoop(_, _, _, _)
decodeUintArrayLoop(s, k, val, array) ==
  IF k > Len(s) THEN array
  ELSE LET digit == IndexOf(encodingChars, s[k])
           next == val * 32 + (digit % 32)
       IN IF digit < 0 THEN array
          ELSE IF digit < 32
            THEN decodeUintArrayLoop(s, k + 1, 0, Append(array, next))
          ELSE decodeUintArrayLoop(s, k + 1, next, array)

decodeUintArrayFromUrlComponent(s) ==
  IF s = UndefinedString THEN <<>> ELSE decodeUintArrayLoop(s, 1, 0, <<>>)

(***************************************************************************)
(* parseTransforms and stringifyTransforms                                 *)
(***************************************************************************)
\* A parser that never reads the inverted flag.
parseInvertedIgnored(invertedRaw) == FALSE

\* Boolean(invertedRaw): undefined and the empty string are falsy.
parseInverted(invertedRaw) == invertedRaw # UndefinedString /\ invertedRaw # <<>>

\* The transforms one "~"-separated token contributes: one or none.
parseTransform(s) ==
  LET tuple == Split(s, "-")
      shortKey == tuple[1]
      type == convertToTransformType(SHORT_KEY_TO_TRANSFORM(shortKey))
  IN CASE type = "null" -> <<>>
       [] type = "collapse-resource" ->
            LET resourceIndex == parseInt(Field(tuple, 3))
                collapsedFuncIndex == parseInt(Field(tuple, 4))
            IN IF isNaN(resourceIndex) \/ isNaN(collapsedFuncIndex) THEN <<>>
               ELSE IF resourceIndex >= 0
                 THEN <<[type |-> type,
                         resourceIndex |-> resourceIndex,
                         collapsedFuncIndex |-> collapsedFuncIndex,
                         implementation |->
                           toValidImplementationFilter(Field(tuple, 2))]>>
               ELSE <<>>
       [] type = "collapse-direct-recursion" ->
            LET funcIndex == parseInt(Field(tuple, 3))
            IN IF isNaN(funcIndex) \/ funcIndex < 0 THEN <<>>
               ELSE <<[type |-> type,
                       funcIndex |-> funcIndex,
                       implementation |->
                         toValidImplementationFilter(Field(tuple, 2))]>>
       [] type \in {"merge-function", "focus-function", "drop-function",
                    "collapse-function-subtree"} ->
            LET funcIndex == parseInt(Field(tuple, 2))
            IN IF ~isNaN(funcIndex) /\ funcIndex >= 0
                 THEN <<[type |-> type, funcIndex |-> funcIndex]>>
                 ELSE <<>>
       [] type = "focus-subtree" ->
            <<[type |-> "focus-subtree",
               implementation |-> toValidImplementationFilter(Field(tuple, 2)),
               callNodePath |->
                 decodeUintArrayFromUrlComponent(Field(tuple, 3)),
               inverted |-> parseInverted(Field(tuple, 4))]>>
       [] type = "merge-call-node" ->
            <<[type |-> "merge-call-node",
               implementation |-> toValidImplementationFilter(Field(tuple, 2)),
               callNodePath |->
                 decodeUintArrayFromUrlComponent(Field(tuple, 3))]>>

\* A parser that gives up at the first token that yields no transform.
RECURSIVE parseTokensStopAtSkipped(_)
parseTokensStopAtSkipped(tokens) ==
  IF tokens = <<>> THEN <<>>
  ELSE IF parseTransform(tokens[1]) = <<>> THEN <<>>
  ELSE parseTransform(tokens[1]) \o parseTokensStopAtSkipped(Tail(tokens))

RECURSIVE parseTokens(_)
parseTokens(tokens) ==
  IF tokens = <<>> THEN <<>>
  ELSE parseTransform(tokens[1]) \o parseTokens(Tail(tokens))

parseTransforms(transformString) ==
  IF transformString = <<>> THEN <<>>
  ELSE parseTokens(Split(transformString, "~"))

stringifyTransform(t) ==
  LET shortKey == TRANSFORM_TO_SHORT_KEY(t.type)
  IN CASE t.type \in {"merge-function", "drop-function",
                      "collapse-function-subtree", "focus-function"} ->
            Join(<<shortKey, numberToString(t.funcIndex)>>, "-")
       [] t.type = "collapse-resource" ->
            Join(<<shortKey, Str(t.implementation),
                   numberToString(t.resourceIndex),
                   numberToString(t.collapsedFuncIndex)>>, "-")
       [] t.type = "collapse-direct-recursion" ->
            Join(<<shortKey, Str(t.implementation),
                   numberToString(t.funcIndex)>>, "-")
       [] t.type \in {"focus-subtree", "merge-call-node"} ->
            LET string ==
                  Join(<<shortKey, Str(t.implementation),
                         encodeUintArrayForUrlComponent(t.callNodePath)>>, "-")
                \* transform.inverted is undefined on merge-call-node.
                inverted == t.type = "focus-subtree" /\ t.inverted
            IN IF inverted THEN string \o <<"-", "i">> ELSE string

stringifyTransforms(transformStack) ==
  Join([k \in 1..Len(transformStack) |->
          stringifyTransform(transformStack[k])], "~")

(***************************************************************************)
(* A transform stack is written to the URL and read back.  The stacks are  *)
(* the well-formed ones: every index a non-negative integer, every         *)
(* implementation one of the three filters, focus-subtree with its         *)
(* inverted flag and merge-call-node without one.                          *)
(***************************************************************************)
CodecCallNodePaths == {<<>>, <<0>>, <<31, 32>>, <<1040, 5, 63>>}

WellFormedTransforms ==
  {[type |-> type, funcIndex |-> funcIndex] :
     type \in {"merge-function", "focus-function", "drop-function",
               "collapse-function-subtree"},
     funcIndex \in {0, 325}}
  \cup {[type |-> "collapse-direct-recursion", funcIndex |-> 10,
         implementation |-> implementation] :
          implementation \in Implementations}
  \cup {[type |-> "collapse-resource", resourceIndex |-> resourceIndex,
         collapsedFuncIndex |-> 8, implementation |-> implementation] :
          resourceIndex \in {0, 12}, implementation \in {"js", "combined"}}
  \cup {[type |-> "focus-subtree", implementation |-> implementation,
         callNodePath |-> callNodePath, inverted |-> inverted] :
          implementation \in {"combined", "js"},
          callNodePath \in CodecCallNodePaths, inverted \in BOOLEAN}
  \cup {[type |-> "merge-call-node", implementation |-> implementation,
         callNodePath |-> callNodePath] :
          implementation \in {"combined", "cpp"},
          callNodePath \in CodecCallNodePaths}

TransformStacks ==
  UNION {[1..n -> WellFormedTransforms] : n \in 0..MaxTransforms}

InitCodec ==
  /\ thread \in TreeThreads(0)
  /\ oldThread = thread
  /\ transform = NoTransform
  /\ oldStackToNewStack = NullMap
  /\ applied = 0
  /\ pc = "stack"
  /\ urlStack \in TransformStacks
  /\ urlString = <<>>
  /\ parsedStack = <<>>
  /\ NothingElse

StringifyTransforms ==
  /\ pc = "stack"
  /\ urlString' = stringifyTransforms(urlStack)
  /\ pc' = "string"
  /\ UNCHANGED <<thread, oldThread, transform, oldStackToNewStack, applied,
                 urlStack, parsedStack, otherVars>>

ParseTransforms ==
  /\ pc = "string"
  /\ parsedStack' = parseTransforms(urlString)
  /\ pc' = "parsed"
  /\ UNCHANGED <<thread, oldThread, transform, oldStackToNewStack, applied,
                 urlStack, urlString, otherVars>>

NextCodec ==
  \/ StringifyTransforms
  \/ ParseTransforms

SpecCodec == InitCodec /\ [][NextCodec]_vars

(***************************************************************************)
(* A transform string arrives from the URL: up to MaxTokens tokens joined  *)
(* by "~", each the serialization of a transform, a token with a short key *)
(* that stands for no transform, or a token of a func, resource or         *)
(* recursion transform whose index field is missing or is not a decimal    *)
(* number.                                                                 *)
(***************************************************************************)
MaxTokens == 3

\* Call nodes of a call tree handed to invertCallNodePath.
MaxCallNodes == 4

\* Requests made of the compression worker, and messages the workers post
\* in all.
MaxRequests == 2

MaxMessages == 4

UrlTransforms ==
  {[type |-> "merge-function", funcIndex |-> 325],
   [type |-> "collapse-direct-recursion", funcIndex |-> 10,
    implementation |-> "cpp"],
   [type |-> "collapse-resource", resourceIndex |-> 12,
    collapsedFuncIndex |-> 8, implementation |-> "js"],
   [type |-> "focus-subtree", implementation |-> "js",
    callNodePath |-> <<31, 32>>, inverted |-> TRUE]}

SerializedTokens == {stringifyTransform(t) : t \in UrlTransforms}

\* "x-5", "fx-js-0" and the empty token.
UnknownKeyTokens ==
  {<<"x", "-", "5">>, <<"f", "x", "-", "j", "s", "-", "0">>, <<>>}

\* "mf", "ff-", "cfs-abc", "df-12abc", "mf- 7", "rec-js-x1", "cr-js-12" and
\* "cr-js-1x-8".
BadIndexTokens ==
  {<<"m", "f">>,
   <<"f", "f", "-">>,
   <<"c", "f", "s", "-", "a", "b", "c">>,
   <<"d", "f", "-", "1", "2", "a", "b", "c">>,
   <<"m", "f", "-", " ", "7">>,
   <<"r", "e", "c", "-", "j", "s", "-", "x", "1">>,
   <<"c", "r", "-", "j", "s", "-", "1", "2">>,
   <<"c", "r", "-", "j", "s", "-", "1", "x", "-", "8">>}

UrlTokens == SerializedTokens \cup UnknownKeyTokens \cup BadIndexTokens

TransformStrings ==
  {Join(tokens, "~") :
     tokens \in UNION {[1..n -> UrlTokens] : n \in 1..MaxTokens}}

InitUrl ==
  /\ thread \in TreeThreads(0)
  /\ oldThread = thread
  /\ transform = NoTransform
  /\ oldStackToNewStack = NullMap
  /\ applied = 0
  /\ pc = "string"
  /\ urlStack = <<>>
  /\ urlString \in TransformStrings
  /\ parsedStack = <<>>
  /\ NothingElse

NextUrl == ParseTransforms

SpecUrl == InitUrl /\ [][NextUrl]_vars

(***************************************************************************)
(* Properties.                                                             *)
(***************************************************************************)
old == oldThread.stackTable

new == thread.stackTable

OldStacks == StackIndexes(old)

NewStacks == StackIndexes(new)

\* The new stack (or null) the applied transform gave old stack s.
NewStackOf(s) == MapGet(oldStackToNewStack, s)

Transformed(type) == pc = "transformed" /\ transform.type = type

\* Every prefix is null or an earlier row.
Ordered(stackTable) ==
  \A i \in StackIndexes(stackTable) :
    LET prefix == At(stackTable.prefix, i)
    IN prefix = Null \/ (prefix >= 0 /\ prefix < i)

\* C1: starting from a thread whose prefixes precede their rows, after any
\* sequence of transforms applied through applyTransform every row of the
\* stack table still has a prefix that is null or an earlier row.
C1_PrefixOrderPreserved == Ordered(thread.stackTable)

\* A thread that went through two transforms or more, a collapse-resource
\* among them, and still has a stack below another.
C1_Witness ==
  /\ pc = "stacked"
  /\ applied >= 2
  /\ thread.funcTable.length > InitFuncTable.length
  /\ \E i \in NewStacks : At(new.prefix, i) # Null

\* Each sample's stack is null or a row of the thread's stack table.
SamplesValid(t) ==
  \A k \in 1..Len(t.samples) :
    t.samples[k] = Null \/ t.samples[k] \in StackIndexes(t.stackTable)

\* C2: a transform applied to a thread whose samples reference rows of its
\* stack table returns, and in the thread it returns every sample's stack is
\* null or a row of the returned stack table.
C2_SamplesReferenceNewTable ==
  /\ pc # "threw"
  /\ pc = "transformed" => SamplesValid(thread)

\* A transform that removed rows and moved a sample to another row.
C2_Witness ==
  /\ pc = "transformed"
  /\ new.length < old.length
  /\ \E k \in 1..Len(thread.samples) :
       /\ thread.samples[k] # Null
       /\ thread.samples[k] # oldThread.samples[k]

\* C3: a well-formed transform stack written with stringifyTransforms and
\* read back with parseTransforms is the stack that was written, the empty
\* stack being written as the empty string.
C3_ParseStringifyRoundTrip ==
  /\ pc = "parsed" => parsedStack = urlStack
  /\ pc \in {"string", "parsed"} =>
       (urlString = <<>> <=> urlStack = <<>>)

C3_Witness ==
  /\ pc = "parsed"
  /\ Len(parsedStack) = MaxTransforms
  /\ parsedStack[1].type = "focus-subtree"
  /\ parsedStack[1].inverted
  /\ Len(parsedStack[1].callNodePath) > 1
  /\ parsedStack[2].type = "merge-call-node"
  /\ parsedStack[2].callNodePath = <<>>
  /\ "inverted" \notin DOMAIN parsedStack[2]

(***************************************************************************)
(* Call paths of the thread before and after the transform.                *)
(***************************************************************************)
OldPath(s) == callNodePathOfStack(oldThread, s)

NewPath(s) == callNodePathOfStack(thread, s)

OldFunc(s) == funcOfStack(oldThread, s)

\* The nearest ancestor of a stack that lies in a set of stacks, or null.
RECURSIVE NearestAncestorIn(_, _, _)
NearestAncestorIn(stackTable, stack, stacks) ==
  LET prefix == At(stackTable.prefix, stack)
  IN IF prefix = Null THEN Null
     ELSE IF prefix \in stacks THEN prefix
     ELSE NearestAncestorIn(stackTable, prefix, stacks)

\* The samples are those of the old thread, each converted by the stack map.
SamplesConverted ==
  \A k \in 1..Len(thread.samples) :
    thread.samples[k] = NewStackOf(oldThread.samples[k])

\* The new stack table has one row for each stack of kept, in the old
\* order and with the old frame, whose prefix is the image of the stack's
\* nearest ancestor in kept; every other old stack maps to the image of
\* its nearest ancestor in kept.
KeepsExactly(kept) ==
  /\ new.length = Cardinality(kept)
  /\ \A s \in kept :
       /\ NewStackOf(s) = Cardinality({k \in kept : k < s})
       /\ At(new.frame, NewStackOf(s)) = At(old.frame, s)
       /\ At(new.prefix, NewStackOf(s)) =
            NewStackOf(NearestAncestorIn(old, s, kept))
  /\ \A s \in OldStacks \ kept :
       NewStackOf(s) = NewStackOf(NearestAncestorIn(old, s, kept))

\* The stacks of the call node at transform.callNodePath in the call tree
\* filtered by transform.implementation.
StacksOfCallNode ==
  {s \in OldStacks :
     /\ FUNC_MATCHES(transform.implementation, oldThread, OldFunc(s))
     /\ filterCallNodePathByImplementation(
          oldThread, transform.implementation, OldPath(s))
          = transform.callNodePath}

\* A merge-call-node whose non-empty path is a path of the filtered tree.
MergedCallNode ==
  /\ Transformed("merge-call-node")
  /\ transform.callNodePath # <<>>
  /\ \A k \in 1..Len(transform.callNodePath) :
       FUNC_MATCHES(transform.implementation, oldThread,
                    transform.callNodePath[k])

\* C4: mergeCallNode with a non-empty path P removes exactly the stacks
\* whose implementation-filtered call path is P.  Every other stack is kept
\* in its relative position with its frame, a descendant of a removed stack
\* with the last function of P included; a kept stack's prefix is the image
\* of its nearest kept ancestor and a sample on a removed stack points to
\* the image of the stack's parent.
C4_MergeCallNodeRemovesExactlyPath ==
  MergedCallNode =>
    /\ KeepsExactly(OldStacks \ StacksOfCallNode)
    /\ \A s \in StacksOfCallNode :
         NewStackOf(s) = NewStackOf(At(old.prefix, s))
    /\ SamplesConverted

\* Direct recursion at the tip: a child of a stack of the merged call node
\* that has the last function of the path is removed as well.
C4_Witness ==
  /\ MergedCallNode
  /\ transform.implementation = "combined"
  /\ \E s \in OldStacks \ StacksOfCallNode :
       /\ At(old.prefix, s) \in StacksOfCallNode
       /\ OldFunc(s) = OldFunc(At(old.prefix, s))
       /\ NewStackOf(s) = NewStackOf(At(old.prefix, s))
       /\ new.length < Cardinality(OldStacks \ StacksOfCallNode)

(***************************************************************************)
(* collapse-direct-recursion                                               *)
(***************************************************************************)
\* A call path with every run of consecutive occurrences of a func replaced
\* by one occurrence.
RECURSIVE CollapseRuns(_, _)
CollapseRuns(path, funcIndex) ==
  IF Len(path) <= 1 THEN path
  ELSE LET front == SubSeq(path, 1, Len(path) - 1)
       IN IF path[Len(path)] = funcIndex /\ path[Len(path) - 1] = funcIndex
            THEN CollapseRuns(front, funcIndex)
            ELSE Append(CollapseRuns(front, funcIndex), path[Len(path)])

Occurrences(path, funcIndex) ==
  Cardinality({k \in 1..Len(path) : path[k] = funcIndex})

\* The old stacks from the root down to a stack.
RECURSIVE OldChain(_)
OldChain(s) ==
  IF s = Null THEN <<>> ELSE Append(OldChain(At(old.prefix, s)), s)

\* A stack that has no node of its own after the transform: it shares the
\* image of its prefix.
Removed(s) == NewStackOf(s) = NewStackOf(At(old.prefix, s))

\* C5: collapseDirectRecursion with the combined filter maps every old stack
\* with call path Q to a new stack whose call path is Q with each maximal
\* run of the collapsed func replaced by one occurrence; two runs that
\* another function separates are not joined.
C5_CombinedCollapsesEachRun ==
  (Transformed("collapse-direct-recursion")
     /\ transform.implementation = "combined") =>
    \A s \in OldStacks :
      /\ NewStackOf(s) \in NewStacks
      /\ NewPath(NewStackOf(s)) = CollapseRuns(OldPath(s), transform.funcIndex)

C5_Witness ==
  /\ Transformed("collapse-direct-recursion")
  /\ transform.implementation = "combined"
  /\ \E s \in OldStacks, other \in 0..(oldThread.funcTable.length - 1) :
       /\ other # transform.funcIndex
       /\ OldPath(s) = <<transform.funcIndex, transform.funcIndex, other,
                         transform.funcIndex, transform.funcIndex>>
       /\ NewPath(NewStackOf(s)) =
            <<transform.funcIndex, other, transform.funcIndex>>

\* A frame the implementation filter hides and that is not the collapsed
\* func.
Hidden(s) ==
  /\ OldFunc(s) # transform.funcIndex
  /\ ~FUNC_MATCHES(transform.implementation, oldThread, OldFunc(s))

\* An occurrence of the collapsed func lies above the stack, with nothing
\* but hidden frames in between.
RunAbove(s) ==
  LET chain == OldChain(s)
  IN \E j \in 1..(Len(chain) - 1) :
       /\ OldFunc(chain[j]) = transform.funcIndex
       /\ \A k \in (j + 1)..(Len(chain) - 1) : Hidden(chain[k])

\* An occurrence of the collapsed func lies below the stack, with nothing
\* but hidden frames in between.
RunBelow(s) ==
  \E d \in OldStacks :
    LET chain == OldChain(d)
    IN /\ OldFunc(d) = transform.funcIndex
       /\ \E i \in 1..(Len(chain) - 1) :
            /\ chain[i] = s
            /\ \A k \in (i + 1)..(Len(chain) - 1) : Hidden(chain[k])

\* The stack belongs to a run of at least two occurrences of the collapsed
\* func: a repeated occurrence, or a hidden frame between two occurrences.
InRun(s) ==
  \/ OldFunc(s) = transform.funcIndex /\ RunAbove(s)
  \/ Hidden(s) /\ RunAbove(s) /\ RunBelow(s)

\* C6: for every implementation filter collapseDirectRecursion removes a
\* stack only when it belongs to a run of at least two occurrences of the
\* collapsed func; a stack whose call path holds the func at most once maps
\* to a new stack with the same call path, a filter-hidden frame right
\* below the single occurrence included.
C6_RemovesOnlyRepeatedRuns ==
  Transformed("collapse-direct-recursion") =>
    \A s \in OldStacks :
      /\ Removed(s) => InRun(s)
      /\ Occurrences(OldPath(s), transform.funcIndex) <= 1 =>
           /\ NewStackOf(s) \in NewStacks
           /\ NewPath(NewStackOf(s)) = OldPath(s)

\* A hidden frame right below the single occurrence of the collapsed func
\* is removed.
C6_Witness ==
  /\ Transformed("collapse-direct-recursion")
  /\ \E s \in OldStacks :
       /\ Occurrences(OldPath(s), transform.funcIndex) = 1
       /\ Hidden(s)
       /\ At(old.prefix, s) # Null
       /\ OldFunc(At(old.prefix, s)) = transform.funcIndex
       /\ ~RunBelow(s)
       /\ Removed(s)
       /\ NewPath(NewStackOf(s)) # OldPath(s)

(***************************************************************************)
(* collapse-resource                                                       *)
(***************************************************************************)
\* The func of an old stack belongs to the collapsed resource.
InResource(s) ==
  At(oldThread.funcTable.resource, OldFunc(s)) = transform.resourceIndex

\* A new stack on the frame that collapseResource appended.
Collapsed(n) == At(new.frame, n) >= oldThread.frameTable.length

\* C7: collapseResource maps two old stacks with the same prefix (null
\* included) whose funcs are in the resource to one new stack, and every
\* stack of a chain of funcs of the resource to the node of the chain's
\* first stack; no new stack has two collapsed children and no collapsed
\* node has a collapsed parent.
C7_CollapseResourceOneNodePerRun ==
  Transformed("collapse-resource") =>
    /\ \A s, t \in OldStacks :
         (At(old.prefix, s) = At(old.prefix, t)
            /\ InResource(s) /\ InResource(t)) =>
           /\ NewStackOf(s) = NewStackOf(t)
           /\ NewStackOf(s) \in NewStacks
           /\ Collapsed(NewStackOf(s))
    /\ \A s \in OldStacks :
         (InResource(s) /\ At(old.prefix, s) # Null
            /\ InResource(At(old.prefix, s))) =>
           NewStackOf(s) = NewStackOf(At(old.prefix, s))
    /\ \A n, m \in NewStacks :
         (n # m /\ Collapsed(n) /\ Collapsed(m)) =>
           At(new.prefix, n) # At(new.prefix, m)
    /\ \A n \in NewStacks :
         (Collapsed(n) /\ At(new.prefix, n) # Null) =>
           ~Collapsed(At(new.prefix, n))

C7_Witness ==
  /\ Transformed("collapse-resource")
  /\ \E s, t, u \in OldStacks :
       /\ s # t
       /\ At(old.prefix, s) = Null /\ At(old.prefix, t) = Null
       /\ InResource(s) /\ InResource(t) /\ InResource(u)
       /\ OldFunc(s) # OldFunc(t)
       /\ At(old.prefix, u) = s
       /\ new.length = 1
       /\ Collapsed(0)
       /\ NewStackOf(u) = NewStackOf(t)

\* The run heads merged into a collapsed node: the old stacks of the
\* resource that map to it and whose prefix does not.
RunHeads(n) ==
  {s \in OldStacks :
     /\ InResource(s)
     /\ NewStackOf(s) = n
     /\ NewStackOf(At(old.prefix, s)) # n}

\* C8: after collapseResource a collapsed node has the category of the run
\* heads merged into it when they all have the same one and defaultCategory
\* otherwise; it has their subcategory when category and subcategory all
\* agree and 0 otherwise, whatever the order of the heads in the table.
C8_CollapsedCategoryFallback ==
  Transformed("collapse-resource") =>
    \A n \in NewStacks :
      Collapsed(n) =>
        LET categories == {At(old.category, s) : s \in RunHeads(n)}
            subcategories == {At(old.subcategory, s) : s \in RunHeads(n)}
        IN /\ RunHeads(n) # {}
           /\ At(new.category, n) =
                IF Cardinality(categories) = 1
                  THEN CHOOSE c \in categories : TRUE
                  ELSE DefaultCategory
           /\ At(new.subcategory, n) =
                IF Cardinality(categories) = 1 /\ Cardinality(subcategories) = 1
                  THEN CHOOSE c \in subcategories : TRUE
                  ELSE 0

\* Three heads under one prefix: the first two agree on a category that is
\* not the default and differ in subcategory, the third has another
\* category.
C8_Witness ==
  /\ Transformed("collapse-resource")
  /\ \E n \in NewStacks :
       /\ Collapsed(n)
       /\ At(new.category, n) = DefaultCategory
       /\ At(new.subcategory, n) = 0
       /\ \E s, t, u \in RunHeads(n) :
            /\ s < t /\ t < u
            /\ At(old.category, s) = At(old.category, t)
            /\ At(old.category, s) # DefaultCategory
            /\ At(old.subcategory, s) # At(old.subcategory, t)
            /\ At(old.category, u) # At(old.category, s)

(***************************************************************************)
(* merge-function and drop-function                                        *)
(***************************************************************************)
\* C9: mergeFunction(f) produces one row for each old stack whose func is
\* not f, in the old order and with the old frame, and no row with func f;
\* a kept stack's prefix is the image of its nearest ancestor whose func is
\* not f (null if none) and a stack with func f maps to that image.
C9_MergeFunctionRemovesEveryStackOfFunc ==
  Transformed("merge-function") =>
    /\ KeepsExactly({s \in OldStacks : OldFunc(s) # transform.funcIndex})
    /\ \A n \in NewStacks : funcOfStack(thread, n) # transform.funcIndex

C9_Witness ==
  /\ Transformed("merge-function")
  /\ \E s, t, u \in OldStacks :
       /\ OldFunc(s) = transform.funcIndex
       /\ OldFunc(t) = transform.funcIndex
       /\ OldFunc(u) # transform.funcIndex
       /\ At(old.prefix, s) = Null
       /\ At(old.prefix, t) = s
       /\ At(old.prefix, u) = t
       /\ NewStackOf(t) = Null
       /\ NewStackOf(u) \in NewStacks
       /\ At(new.prefix, NewStackOf(u)) = Null

\* C10: dropFunction(f) returns the same stack table; a sample's stack
\* becomes null exactly when the stack or one of its ancestors has func f,
\* and every other sample keeps its stack.
C10_DropFunctionNullsSamples ==
  Transformed("drop-function") =>
    /\ new = old
    /\ \A k \in 1..Len(thread.samples) :
         thread.samples[k] =
           IF /\ oldThread.samples[k] # Null
              /\ transform.funcIndex \in Range(OldPath(oldThread.samples[k]))
             THEN Null
             ELSE oldThread.samples[k]

C10_Witness ==
  /\ Transformed("drop-function")
  /\ new.length > 0
  /\ \E j, k \in 1..Len(thread.samples) :
       /\ oldThread.samples[j] # Null
       /\ OldFunc(oldThread.samples[j]) # transform.funcIndex
       /\ thread.samples[j] = Null
       /\ oldThread.samples[k] # Null
       /\ thread.samples[k] = oldThread.samples[k]

(***************************************************************************)
(* A transform applied twice                                               *)
(***************************************************************************)
AppliedAgain(type) == pc = "again" /\ transform.type = type

\* C11: applying drop-function(f) to its own output changes neither the
\* stack table nor the stack of any sample.
C11_DropFunctionTwice ==
  AppliedAgain("drop-function") =>
    /\ thread.stackTable = oldThread.stackTable
    /\ thread.samples = oldThread.samples

\* The first application dropped the sample of a stack below an occurrence
\* of f and kept another sample (sample k starts on stack k - 2).
C11_Witness ==
  /\ AppliedAgain("drop-function")
  /\ \E j, k \in 2..(Len(thread.stackTable.prefix) + 1) :
       /\ thread.samples[j] = Null
       /\ funcOfStack(thread, j - 2) # transform.funcIndex
       /\ thread.samples[k] = k - 2

(***************************************************************************)
(* focus-function                                                          *)
(***************************************************************************)
\* The position of the first occurrence of a func on a call path.
FirstOccurrence(path, funcIndex) ==
  CHOOSE k \in 1..Len(path) :
    path[k] = funcIndex /\ \A j \in 1..(k - 1) : path[j] # funcIndex

\* The new stack table has one row for each stack of kept, in the old order
\* and with the old frame.
RowsOf(kept) ==
  /\ new.length = Cardinality(kept)
  /\ \A s \in kept :
       /\ NewStackOf(s) = Cardinality({k \in kept : k < s})
       /\ At(new.frame, NewStackOf(s)) = At(old.frame, s)

NewRoots == {n \in NewStacks : At(new.prefix, n) = Null}

\* C12: focusFunction(f) keeps an old stack exactly when f is the func of the
\* stack or of one of its ancestors and maps every other stack to null; the
\* new roots are the images of the stacks with func f that have no ancestor
\* with func f, and a new stack's call path is the old one from the first
\* occurrence of f onward.
C12_FocusFunctionRootsAtFirstOccurrence ==
  Transformed("focus-function") =>
    LET f == transform.funcIndex
        kept == {s \in OldStacks : f \in Range(OldPath(s))}
    IN /\ RowsOf(kept)
       /\ \A s \in OldStacks \ kept : NewStackOf(s) = Null
       /\ NewRoots =
            {NewStackOf(s) : s \in {k \in kept :
               /\ OldFunc(k) = f
               /\ f \notin Range(OldPath(At(old.prefix, k)))}}
       /\ \A s \in kept :
            NewPath(NewStackOf(s)) =
              SubSeq(OldPath(s), FirstOccurrence(OldPath(s), f),
                     Len(OldPath(s)))

C12_Witness ==
  /\ Transformed("focus-function")
  /\ \E s \in OldStacks :
       /\ Len(OldPath(s)) >= 4
       /\ OldPath(s)[1] # transform.funcIndex
       /\ OldPath(s)[2] = transform.funcIndex
       /\ OldPath(s)[4] = transform.funcIndex
       /\ NewStackOf(At(old.prefix, At(old.prefix, At(old.prefix, s)))) = Null
       /\ Len(NewPath(NewStackOf(s))) = Len(OldPath(s)) - 1
       /\ Cardinality(NewRoots) = 1

(***************************************************************************)
(* focus-subtree                                                           *)
(***************************************************************************)
\* How much of transform.callNodePath a chain of funcs from the root has
\* matched: a func that is the next one of the path advances, a func the
\* implementation filter hides is skipped, any other func before the path
\* is complete fails (-1).
RECURSIVE MatchedUpTo(_)
MatchedUpTo(funcs) ==
  IF funcs = <<>> THEN 0
  ELSE LET d == MatchedUpTo(SubSeq(funcs, 1, Len(funcs) - 1))
           g == funcs[Len(funcs)]
       IN IF d = -1 THEN -1
          ELSE IF d = Len(transform.callNodePath) THEN d
          ELSE IF g = transform.callNodePath[d + 1] THEN d + 1
          ELSE IF ~FUNC_MATCHES(transform.implementation, oldThread, g) THEN d
          ELSE -1

\* The old stacks whose chain from the root starts with all of the path.
UnderPath ==
  {s \in OldStacks : MatchedUpTo(OldPath(s)) = Len(transform.callNodePath)}

\* The old stacks at which the last element of the path is matched.
PathTips ==
  {s \in UnderPath : At(old.prefix, s) \notin UnderPath}

FocusedSubtree ==
  /\ Transformed("focus-subtree")
  /\ ~transform.inverted
  /\ transform.callNodePath # <<>>

\* C13: focusSubtree with a non-empty path keeps exactly the old stacks
\* whose chain from the root, frames hidden by the filter skipped, starts
\* with the whole path; the new roots are the stacks at which the last
\* element of the path is matched, the other kept stacks have the image of
\* their old prefix as prefix, and a sample on a stack that is not kept
\* becomes null.
C13_FocusSubtreeReRootsAtTip ==
  FocusedSubtree =>
    LET under == UnderPath
        tips == {s \in under : At(old.prefix, s) \notin under}
    IN /\ tips = PathTips
       /\ RowsOf(under)
       /\ NewRoots = {NewStackOf(s) : s \in tips}
       /\ \A s \in tips :
            OldFunc(s) = transform.callNodePath[Len(transform.callNodePath)]
       /\ \A s \in under \ tips :
            At(new.prefix, NewStackOf(s)) = NewStackOf(At(old.prefix, s))
       /\ \A k \in 1..Len(thread.samples) :
            thread.samples[k] =
              IF oldThread.samples[k] \in under
                THEN NewStackOf(oldThread.samples[k])
                ELSE Null

\* The path is matched across a frame the filter hides; the stack of the
\* first element alone loses its sample and a stack below the tip is kept.
C13_Witness ==
  /\ FocusedSubtree
  /\ Len(transform.callNodePath) = 2
  /\ \E tip \in PathTips, below \in UnderPath :
       /\ Len(OldPath(tip)) = 3
       /\ ~FUNC_MATCHES(transform.implementation, oldThread, OldPath(tip)[2])
       /\ At(old.prefix, below) = tip
       /\ At(new.prefix, NewStackOf(below)) = NewStackOf(tip)
       /\ At(new.prefix, NewStackOf(tip)) = Null
       /\ thread.samples[2] = Null

(***************************************************************************)
(* C14: focusInvertedSubtree                                               *)
(***************************************************************************)

\* The stacks from a stack to its root, the stack itself first.
LeafChain(s) == Reverse(OldChain(s))

\* The positions of a leaf-first chain at which the elements of the path
\* are matched in order: a position of the set holds the next expected
\* func, and every position passed before the last match holds a frame that
\* is neither the next expected func nor one the filter matches.
IsInvertedMatch(chain, positions) ==
  LET path == transform.callNodePath
      last == CHOOSE m \in positions : \A i \in positions : i <= m
      matchedBefore(k) == Cardinality({i \in positions : i < k})
  IN /\ Cardinality(positions) = Len(path)
     /\ \A k \in 1..last :
          LET g == OldFunc(chain[k])
              expected == path[matchedBefore(k) + 1]
          IN IF k \in positions
               THEN g = expected
               ELSE /\ g # expected
                    /\ ~FUNC_MATCHES(transform.implementation, oldThread, g)

InvertedMatches(s) ==
  LET chain == LeafChain(s)
  IN {positions \in SUBSET (1..Len(chain)) :
        positions # {} /\ IsInvertedMatch(chain, positions)}

\* The ancestor-or-self of a stack at which the whole path has been matched,
\* or null when there is none.
InvertedFocus(s) ==
  IF s = Null THEN Null
  ELSE LET matches == InvertedMatches(s)
           positions == CHOOSE p \in matches : TRUE
       IN IF matches = {} THEN Null
          ELSE LeafChain(s)[CHOOSE m \in positions :
                              \A i \in positions : i <= m]

\* C14: focusInvertedSubtree leaves the stack table unchanged and maps each
\* sample's stack s to the ancestor-or-self of s at which, walking from s
\* toward the root, the elements of the path have all been matched in order,
\* where a frame that is not the next expected func and does not match the
\* filter is skipped; the sample's stack becomes null when a frame matching
\* the filter differs from the next expected func or the root is passed
\* before the whole path is matched.  Two samples on the same stack get the
\* same result.
C14_InvertedFocusMapsToMatchedAncestor ==
  (Transformed("focus-subtree") /\ transform.inverted) =>
    /\ new = old
    /\ \A s \in OldStacks : Cardinality(InvertedMatches(s)) <= 1
    /\ \A k \in 1..Len(thread.samples) :
         thread.samples[k] = InvertedFocus(oldThread.samples[k])
    /\ \A j, k \in 1..Len(thread.samples) :
         oldThread.samples[j] = oldThread.samples[k] =>
           thread.samples[j] = thread.samples[k]

\* A path of two funcs was matched across a skipped frame, so that two
\* samples on one stack moved to a proper ancestor that is not the parent,
\* and another sample on a stack lost its stack.
C14_Witness ==
  /\ Transformed("focus-subtree") /\ transform.inverted
  /\ Len(transform.callNodePath) = 2
  /\ \E j, k, l \in 1..Len(thread.samples) :
       /\ j # k
       /\ oldThread.samples[j] = oldThread.samples[k]
       /\ thread.samples[j] # Null
       /\ thread.samples[j] # oldThread.samples[j]
       /\ At(old.prefix, oldThread.samples[j]) # thread.samples[j]
       /\ oldThread.samples[l] # Null
       /\ thread.samples[l] = Null

(***************************************************************************)
(* C15: collapseFunctionSubtree                                            *)
(***************************************************************************)

\* The old stacks that lie below a stack with the transform's func.
BelowFunc ==
  {s \in OldStacks :
     transform.funcIndex \in Range(OldPath(At(old.prefix, s)))}

\* The ancestor of a stack of BelowFunc nearest to the root whose func is the
\* transform's func.
TopmostFuncAncestor(s) ==
  OldChain(s)[FirstOccurrence(OldPath(s), transform.funcIndex)]

\* C15: collapseFunctionSubtree(f) makes a row for exactly the old stacks that
\* have no proper ancestor with func f, each with its frame and the image of
\* its prefix as prefix; it maps every stack that has a proper ancestor with
\* func f to the new stack of its topmost ancestor with func f; and no stack
\* of the output has a proper ancestor with func f.
C15_CollapseFunctionSubtreeKeepsUpToFunc ==
  Transformed("collapse-function-subtree") =>
    /\ RowsOf(OldStacks \ BelowFunc)
    /\ \A s \in OldStacks \ BelowFunc :
         At(new.prefix, NewStackOf(s)) = NewStackOf(At(old.prefix, s))
    /\ \A s \in BelowFunc :
         /\ TopmostFuncAncestor(s) \notin BelowFunc
         /\ TopmostFuncAncestor(s) # s
         /\ NewStackOf(s) = NewStackOf(TopmostFuncAncestor(s))
    /\ \A n \in NewStacks :
         transform.funcIndex \notin Range(NewPath(At(new.prefix, n)))
    /\ SamplesConverted

\* A stack two levels below a second occurrence of f is mapped to the node
\* of the first occurrence, which has a kept parent.
C15_Witness ==
  /\ Transformed("collapse-function-subtree")
  /\ \E s \in BelowFunc :
       LET top == TopmostFuncAncestor(s)
       IN /\ At(old.prefix, top) # Null
          /\ At(old.prefix, s) # top
          /\ OldFunc(At(old.prefix, s)) # transform.funcIndex
          /\ Cardinality({k \in 1..Len(OldPath(s)) :
                            OldPath(s)[k] = transform.funcIndex}) >= 2
          /\ NewStackOf(s) = NewStackOf(top)
          /\ At(new.prefix, NewStackOf(top)) # Null

(***************************************************************************)
(* C16, C17: parseTransforms on strings that stringifyTransforms did not   *)
(* write.                                                                  *)
(***************************************************************************)
Tokens == Split(urlString, "~")

ShortKeyOf(token) == Split(token, "-")[1]

ShortKeys == {Str(k) : k \in {"f", "ff", "mcn", "mf", "df", "cr", "rec", "cfs"}}

HasUnknownKey(token) == ShortKeyOf(token) \notin ShortKeys

\* The token is what stringifyTransforms writes for a well-formed transform.
IsSerialized(token) ==
  \E t \in WellFormedTransforms : stringifyTransform(t) = token

\* The transform a token stands for: the one it serializes, if any.
TransformsOf(token) ==
  IF IsSerialized(token)
    THEN <<CHOOSE t \in WellFormedTransforms : stringifyTransform(t) = token>>
    ELSE <<>>

RECURSIVE TransformsOfAll(_)
TransformsOfAll(tokens) ==
  IF tokens = <<>> THEN <<>>
  ELSE TransformsOf(tokens[1]) \o TransformsOfAll(Tail(tokens))

\* A well-formed non-negative decimal number.
IsDecimal(field) ==
  /\ field # UndefinedString
  /\ field # <<>>
  /\ \A k \in 1..Len(field) : IndexOf(DecimalDigits, field[k]) >= 0

\* A token of kind mf, ff, df, cfs, rec or cr with an index field that is
\* missing or is not a well-formed non-negative decimal number.
HasBadIndex(token) ==
  LET tuple == Split(token, "-")
      key == tuple[1]
  IN \/ /\ key \in {Str("mf"), Str("ff"), Str("df"), Str("cfs")}
        /\ ~IsDecimal(Field(tuple, 2))
     \/ /\ key = Str("rec")
        /\ ~IsDecimal(Field(tuple, 3))
     \/ /\ key = Str("cr")
        /\ ~(IsDecimal(Field(tuple, 3)) /\ IsDecimal(Field(tuple, 4)))

\* C16: parseTransforms skips a token whose short key is none of f, ff, mcn,
\* mf, df, cr, rec, cfs, and still returns the transform of every other,
\* well-formed token, in the order of the string.
C16_UnknownShortKeySkipped ==
  (/\ pc = "parsed"
   /\ \A k \in 1..Len(Tokens) :
        HasUnknownKey(Tokens[k]) \/ IsSerialized(Tokens[k]))
    => parsedStack = TransformsOfAll(Tokens)

\* Two transforms were read on either side of a token with an unknown key.
C16_Witness ==
  /\ pc = "parsed"
  /\ Len(Tokens) = 3
  /\ IsSerialized(Tokens[1])
  /\ HasUnknownKey(Tokens[2]) /\ Tokens[2] # <<>>
  /\ IsSerialized(Tokens[3])
  /\ Tokens[1] # Tokens[3]
  /\ parsedStack = TransformsOf(Tokens[1]) \o TransformsOf(Tokens[3])

\* C17: a token of kind mf, ff, df, cfs, rec or cr whose index field is
\* missing or is not a well-formed non-negative decimal number (empty,
\* alphabetic, or digits followed by letters) yields no transform, and the
\* other tokens of the string are still parsed.
C17_BadIndexYieldsNoTransform ==
  (/\ pc = "parsed"
   /\ \A k \in 1..Len(Tokens) :
        HasBadIndex(Tokens[k]) \/ IsSerialized(Tokens[k]))
    => parsedStack = TransformsOfAll(Tokens)

\* A token with a bad index field stood between two serialized transforms.
C17_Witness ==
  /\ pc = "parsed"
  /\ Len(Tokens) = 3
  /\ IsSerialized(Tokens[1])
  /\ HasBadIndex(Tokens[2])
  /\ IsSerialized(Tokens[3])

(***************************************************************************)
(* C18: applyTransformToCallNodePath agrees with applyTransform            *)
(***************************************************************************)
\* The transforms the path rewriting is compared on: every kind but
\* merge-call-node, focus-subtree not inverted and with a non-empty path,
\* collapse-resource with the appended func as collapsedFuncIndex, and the
\* combined filter wherever the transform has a filter.
PathRewritingCase ==
  /\ pc = "transformed"
  /\ transform.type # "merge-call-node"
  /\ transform.type = "focus-subtree" =>
       /\ ~transform.inverted
       /\ transform.callNodePath # <<>>
  /\ transform.type = "collapse-resource" =>
       transform.collapsedFuncIndex = oldThread.funcTable.length
  /\ transform.type \in {"focus-subtree", "collapse-resource",
                         "collapse-direct-recursion"} =>
       transform.implementation = "combined"

\* C18: when the transform maps an old stack with call path Q to a new
\* stack, that stack's call path in the new thread is
\* applyTransformToCallNodePath(Q, transform, newThread); when it maps the
\* old stack to null, applyTransformToCallNodePath returns the empty path.
C18_PathRewritingAgreesWithTransform ==
  PathRewritingCase =>
    \A s \in OldStacks :
      LET path == applyTransformToCallNodePath(OldPath(s), transform, thread)
      IN IF NewStackOf(s) = Null
           THEN path = <<>>
           ELSE NewPath(NewStackOf(s)) = path

\* A focus on a path of two funcs re-rooted a stack three levels deep at
\* the path's tip, and mapped another stack to null.
C18_Witness ==
  /\ PathRewritingCase
  /\ transform.type = "focus-subtree"
  /\ Len(transform.callNodePath) = 2
  /\ \E s, u \in OldStacks :
       /\ Len(OldPath(s)) = 3
       /\ NewStackOf(s) # Null
       /\ NewPath(NewStackOf(s)) = SubSeq(OldPath(s), 2, 3)
       /\ NewStackOf(u) = Null

(***************************************************************************)
(* C19: the sharing invariant                                              *)
(***************************************************************************)
\* No two distinct stacks have the same prefix and the same frame.
Sharing(stackTable) ==
  \A i, j \in StackIndexes(stackTable) :
    (/\ At(stackTable.prefix, i) = At(stackTable.prefix, j)
     /\ At(stackTable.frame, i) = At(stackTable.frame, j)) => i = j

\* C19: if no two distinct stacks of the input stack table have the same
\* prefix and the same frame, then no two distinct stacks of the stack table
\* a transform returns have the same prefix and the same frame.
C19_SharingPreserved ==
  (pc = "transformed" /\ Sharing(old)) => Sharing(new)

\* A transform that builds a new stack table was applied to a thread whose
\* stack table has the sharing property, and two old stacks became two new
\* stacks.
C19_Witness ==
  /\ pc = "transformed"
  /\ Sharing(old)
  /\ new # old
  /\ \E s, u \in OldStacks :
       /\ NewStackOf(s) # Null
       /\ NewStackOf(u) # Null
       /\ NewStackOf(s) # NewStackOf(u)

(***************************************************************************)
(* C20: a transform whose target is not in the thread                      *)
(***************************************************************************)
\* applyTransform returned or threw.
Applied == pc \in {"transformed", "threw"}

\* The call returned a thread with the stack table, samples, funcs and
\* frames of the input.
ThreadUnchanged ==
  /\ pc = "transformed"
  /\ new = old
  /\ thread.samples = oldThread.samples
  /\ thread.funcTable = oldThread.funcTable
  /\ thread.frameTable = oldThread.frameTable

NoStackOfFunc == \A s \in OldStacks : OldFunc(s) # transform.funcIndex

NoStackOfResource == \A s \in OldStacks : ~InResource(s)

\* The positions of a call path at which the elements of
\* transform.callNodePath are found in order, the last of them at the end of
\* the call path, every other position holding a frame that is neither the
\* next expected func nor one the filter matches.
IsPathMatch(funcs, positions) ==
  LET path == transform.callNodePath
      matchedBefore(k) == Cardinality({i \in positions : i < k})
  IN /\ Cardinality(positions) = Len(path)
     /\ Len(funcs) \in positions
     /\ \A k \in 1..Len(funcs) :
          LET expected == path[matchedBefore(k) + 1]
          IN IF k \in positions
               THEN funcs[k] = expected
               ELSE /\ funcs[k] # expected
                    /\ ~FUNC_MATCHES(transform.implementation, oldThread,
                                     funcs[k])

\* The old stacks whose call path is transform.callNodePath once the frames
\* that the implementation filter hides and that are not the next func of
\* the path are left out.
StacksAtPath ==
  {s \in OldStacks :
     LET funcs == OldPath(s)
     IN \E positions \in SUBSET (1..Len(funcs)) :
          IsPathMatch(funcs, positions)}

FuncKinds ==
  {"merge-function", "drop-function", "collapse-direct-recursion",
   "collapse-function-subtree"}

\* C20 as stated: if no stack has func f (respectively a func of resource R,
\* respectively the call path P), then merge-function, drop-function,
\* collapse-direct-recursion, collapse-function-subtree, collapse-resource
\* and merge-call-node return without throwing, with a stack table equal row
\* for row to the input, every sample stack unchanged and no func or frame
\* appended.
C20_MissingTargetIsNoOp ==
  (/\ Applied
   /\ \/ transform.type \in FuncKinds /\ NoStackOfFunc
      \/ transform.type = "collapse-resource" /\ NoStackOfResource
      \/ /\ transform.type = "merge-call-node"
         /\ \A s \in OldStacks : OldPath(s) # transform.callNodePath)
    => ThreadUnchanged

\* C20, amended: for merge-call-node the condition is that no stack has the
\* call path P once the frames that the implementation filter hides (and
\* that are not the next func of P) are left out.
C20_MissingTargetIsNoOpInFilteredTree ==
  (/\ Applied
   /\ \/ transform.type \in FuncKinds /\ NoStackOfFunc
      \/ transform.type = "collapse-resource" /\ NoStackOfResource
      \/ transform.type = "merge-call-node" /\ StacksAtPath = {})
    => ThreadUnchanged

\* merge-call-node under a filter left a thread of three stacks unchanged:
\* the first func of the path is the func of a stack, but no stack is at the
\* end of the path.
C20_Witness ==
  /\ Transformed("merge-call-node")
  /\ transform.implementation # "combined"
  /\ Len(transform.callNodePath) = 2
  /\ StacksAtPath = {}
  /\ old.length = 3
  /\ \E s \in OldStacks : OldFunc(s) = transform.callNodePath[1]
  /\ \E s \in OldStacks :
       ~FUNC_MATCHES(transform.implementation, oldThread, OldFunc(s))
  /\ ThreadUnchanged

(***************************************************************************)
(* C21: a stack whose prefix has no entry in the stack map                 *)
(***************************************************************************)
MapBuilders ==
  {"merge-call-node", "merge-function", "focus-function", "collapse-resource",
   "collapse-direct-recursion", "collapse-function-subtree"}

\* The loop reaches a stack before its prefix: the map has no entry for the
\* prefix when the stack is processed.
PrefixAfterStack == \E s \in OldStacks : At(old.prefix, s) > s

\* C21: a transform that builds an old-to-new stack map throws when the map
\* has no entry for the prefix of the stack it is processing.
C21_MissingPrefixEntryThrows ==
  (Applied /\ transform.type \in MapBuilders /\ PrefixAfterStack)
    => pc = "threw"

\* focus-function threw on a stack table whose first stack has the second
\* as prefix.
C21_Witness ==
  /\ pc = "threw"
  /\ transform.type = "focus-function"
  /\ At(old.prefix, 0) = 1

Columnar(table) ==
  \A column \in DOMAIN table \ {"length"} : Len(table[column]) = table.length

\* C23: every table of the thread a transform returns is columnar: each
\* column of the stack table, the frame table and the func table has
\* exactly `length` entries.
C23_ReturnedTablesColumnar ==
  pc = "transformed" =>
    /\ Columnar(thread.stackTable)
    /\ Columnar(thread.frameTable)
    /\ Columnar(thread.funcTable)

\* collapse-resource appended its func: the stack and frame tables are
\* columnar, and so is every func column but relevantForJS, which is one
\* entry short.
C23_Witness ==
  /\ pc = "transformed"
  /\ transform.type = "collapse-resource"
  /\ thread.funcTable.length = InitFuncTable.length + 1
  /\ Columnar(thread.stackTable)
  /\ Columnar(thread.frameTable)
  /\ \A column \in DOMAIN thread.funcTable \ {"length", "relevantForJS"} :
       Len(thread.funcTable[column]) = thread.funcTable.length
  /\ Len(thread.funcTable.relevantForJS) = thread.funcTable.length - 1

(***************************************************************************)
(* C24: idempotent transforms                                              *)
(***************************************************************************)
IdempotentTransforms ==
  {"merge-function", "focus-function", "collapse-function-subtree",
   "collapse-direct-recursion"}

\* C24: applying merge-function, focus-function, collapse-function-subtree
\* or collapse-direct-recursion to its own output returns a stack table
\* equal row for row and leaves every sample stack unchanged.
C24_AppliedTwiceChangesNothing ==
  (applied = 2 /\ transform.type \in IdempotentTransforms) =>
    /\ pc = "again"
    /\ thread.stackTable = oldThread.stackTable
    /\ thread.samples = oldThread.samples

\* The first application of collapse-function-subtree sent the samples of
\* two stacks to one stack, which is still a stack of the func, and the
\* second application was made on that output.
C24_Witness ==
  /\ AppliedAgain("collapse-function-subtree")
  /\ \E j, k \in 2..(Len(thread.samples) - 1) :
       /\ j # k
       /\ thread.samples[j] # Null
       /\ thread.samples[j] = thread.samples[k]
       /\ funcOfStack(thread, thread.samples[j]) = transform.funcIndex

(***************************************************************************)
(* invertCallNodePath.  A call node table has one node for each call path  *)
(* (no two siblings have the same func); the call tree's getChildren gives *)
(* the children of a node, heaviest first.                                 *)
(***************************************************************************)
\* The call node at the path, null if no node has that call path.
getCallNodeIndexFromPath(path, table) ==
  LET RECURSIVE Walk(_, _)
      Walk(parent, i) ==
        IF i > Len(path) THEN parent
        ELSE LET nodes == {n \in 0..(table.length - 1) :
                             /\ At(table.prefix, n) = parent
                             /\ At(table.func, n) = path[i]}
             IN IF nodes = {} THEN Null
                ELSE Walk(CHOOSE n \in nodes : TRUE, i + 1)
  IN IF path = <<>> THEN Null ELSE Walk(Null, 1)

\* An inversion that leaves the path in root-to-leaf order.
invertCallNodePathNotReversed(path, tree, table) ==
  LET RECURSIVE pathToLeaf(_)
      pathToLeaf(node) ==
        LET children == tree[node + 1]
        IN IF Len(children) > 0 THEN <<node>> \o pathToLeaf(children[1])
           ELSE <<node>>
      callNodeIndex == getCallNodeIndexFromPath(path, table)
  IN IF callNodeIndex = Null THEN <<>>
     ELSE LET nodes == pathToLeaf(callNodeIndex)
          IN [k \in 1..Len(nodes) |-> At(table.func, nodes[k])]

invertCallNodePath(path, tree, table) ==
  LET RECURSIVE pathToLeaf(_)
      pathToLeaf(node) ==
        LET children == tree[node + 1]
        IN IF Len(children) > 0 THEN <<node>> \o pathToLeaf(children[1])
           ELSE <<node>>
      callNodeIndex == getCallNodeIndexFromPath(path, table)
  IN IF callNodeIndex = Null THEN <<>>
     ELSE LET nodes == pathToLeaf(callNodeIndex)
          IN Reverse([k \in 1..Len(nodes) |-> At(table.func, nodes[k])])

\* A call node table of up to MaxCallNodes nodes, a call tree that orders
\* each node's children by some ranking of the nodes, and a path of up to
\* three funcs; two funcs are called.
InitInvert ==
  /\ thread \in TreeThreads(0)
  /\ oldThread = thread
  /\ transform = NoTransform
  /\ oldStackToNewStack = NullMap
  /\ applied = 0
  /\ urlStack = <<>>
  /\ urlString = <<>>
  /\ parsedStack = <<>>
  /\ zeeCallbacks = <<>>
  /\ promises = <<>>
  /\ messages = {}
  /\ pc = "tree"
  /\ \E n \in 1..MaxCallNodes :
       \E prefix \in PrefixColumns(n), func \in [1..n -> 0..1] :
         /\ \A j, k \in 1..n :
              (prefix[j] = prefix[k] /\ func[j] = func[k]) => j = k
         /\ callNodeTable = [length |-> n, prefix |-> prefix, func |-> func]
  /\ \E heavier \in {r \in [0..(callNodeTable.length - 1) ->
                                1..callNodeTable.length] :
                         \A j, k \in DOMAIN r : r[j] = r[k] => j = k} :
       callTree =
         [node \in 1..callNodeTable.length |->
            LET children == {c \in 0..(callNodeTable.length - 1) :
                               callNodeTable.prefix[c + 1] = node - 1}
            IN CHOOSE order \in [1..Cardinality(children) -> children] :
                 \A j, k \in DOMAIN order :
                   j < k => heavier[order[j]] < heavier[order[k]]]
  /\ selectedPath \in UNION {[1..k -> 0..1] : k \in 0..3}
  /\ returnedPath = <<>>

InvertCallNodePath ==
  /\ pc = "tree"
  /\ returnedPath' = invertCallNodePath(selectedPath, callTree, callNodeTable)
  /\ pc' = "inverted"
  /\ UNCHANGED <<thread, oldThread, transform, oldStackToNewStack, applied,
                 codecVars, callNodeTable, callTree, selectedPath,
                 zeeCallbacks, promises, messages>>

SpecInvert == InitInvert /\ [][InvertCallNodePath]_vars

\* The call path of a call node.
CallNodePathOf(node) ==
  LET RECURSIVE Up(_)
      Up(n) == IF n = Null THEN <<>>
               ELSE Up(callNodeTable.prefix[n + 1]) \o <<callNodeTable.func[n + 1]>>
  IN Up(node)

\* C25: invertCallNodePath returns the empty path when the path is not the
\* call path of a call node; otherwise it returns, in reverse order, the
\* funcs of the nodes visited from that node by taking the first child until
\* a node without children: the first func is the leaf's and the last func
\* is the last func of the given path.
C25_InvertWalksFirstChildren ==
  pc = "inverted" =>
    LET nodes == 0..(callNodeTable.length - 1)
        resolved == {n \in nodes : CallNodePathOf(n) = selectedPath}
        k == Len(returnedPath)
    IN IF resolved = {} THEN returnedPath = <<>>
       ELSE /\ k >= 1
            /\ \E walk \in [1..k -> nodes] :
                 /\ walk[1] \in resolved
                 /\ \A i \in 1..(k - 1) :
                      /\ callTree[walk[i] + 1] # <<>>
                      /\ walk[i + 1] = callTree[walk[i] + 1][1]
                 /\ callTree[walk[k] + 1] = <<>>
                 /\ \A i \in 1..k :
                      returnedPath[k + 1 - i] = callNodeTable.func[walk[i] + 1]
            /\ returnedPath[k] = selectedPath[Len(selectedPath)]

\* A path of two funcs resolved to a node with two children; the walk took
\* the first of them, which is not the lower-indexed one, and the result
\* is that child's func followed by the path's last func.
C25_Witness ==
  /\ pc = "inverted"
  /\ Len(selectedPath) = 2
  /\ Len(returnedPath) = 2
  /\ returnedPath[2] = selectedPath[2]
  /\ \E n \in 0..(callNodeTable.length - 1) :
       /\ CallNodePathOf(n) = selectedPath
       /\ Len(callTree[n + 1]) = 2
       /\ callTree[n + 1][1] > callTree[n + 1][2]
       /\ returnedPath[1] = callNodeTable.func[callTree[n + 1][1] + 1]

(***************************************************************************)
(* C26: focus-subtree on the empty path                                    *)
(***************************************************************************)
FocusOnEmptyPath ==
  /\ Applied
  /\ transform.type = "focus-subtree"
  /\ ~transform.inverted
  /\ transform.callNodePath = <<>>

\* C26: a non-inverted focus-subtree with an empty callNodePath returns a
\* stack table equal row for row with every sample unchanged, and
\* applyTransformToCallNodePath returns every call node path unchanged.
C26_FocusOnEmptyPathIsIdentity ==
  FocusOnEmptyPath =>
    /\ pc = "transformed"
    /\ new = old
    /\ thread.samples = oldThread.samples
    /\ \A s \in OldStacks :
         applyTransformToCallNodePath(OldPath(s), transform, thread)
           = OldPath(s)

\* The focus on the empty path returned the stack table and the samples
\* unchanged, and the call node path of a stack two levels deep was
\* rewritten to its last func alone.
C26_Witness ==
  /\ FocusOnEmptyPath
  /\ pc = "transformed"
  /\ new = old
  /\ thread.samples = oldThread.samples
  /\ \E s \in OldStacks :
       /\ Len(OldPath(s)) = 2
       /\ NewPath(NewStackOf(s)) = OldPath(s)
       /\ applyTransformToCallNodePath(OldPath(s), transform, thread)
            = <<OldPath(s)[2]>>

(***************************************************************************)
(* C27: a new stack is made of frames of the old stack                     *)
(***************************************************************************)
RestructuringTransforms ==
  {"focus-subtree", "focus-function", "merge-call-node", "merge-function",
   "collapse-direct-recursion", "collapse-function-subtree"}

\* The frames of a sequence of stacks.
FramesOf(stackTable, chain) ==
  [k \in 1..Len(chain) |-> At(stackTable.frame, chain[k])]

\* The stacks from the root to stack n in the new stack table.
NewChain(n) ==
  LET RECURSIVE Up(_)
      Up(k) == IF k = Null THEN <<>> ELSE Append(Up(At(new.prefix, k)), k)
  IN Up(n)

\* a can be had from b by leaving elements out.
IsSubsequence(a, b) ==
  LET RECURSIVE Sub(_, _)
      Sub(i, j) ==
        IF i > Len(a) THEN TRUE
        ELSE IF j > Len(b) THEN FALSE
        ELSE IF a[i] = b[j] THEN Sub(i + 1, j + 1)
        ELSE Sub(i, j + 1)
  IN Sub(1, 1)

\* C27: whenever focus-subtree, focus-function, merge-call-node,
\* merge-function, collapse-direct-recursion or collapse-function-subtree
\* maps old stack s to new stack n, the frames from the root to n are a
\* subsequence of the frames from the root to s, and the frame, category and
\* subcategory of n are those of s or of an ancestor of s, but for the
\* category and subcategory that collapse-function-subtree replaced by its
\* fallback.
C27_NewStackMadeOfOldFrames ==
  (pc = "transformed" /\ transform.type \in RestructuringTransforms) =>
    \A s \in OldStacks :
      LET n == NewStackOf(s)
          chain == OldChain(s)
      IN n # Null =>
           /\ IsSubsequence(FramesOf(new, NewChain(n)), FramesOf(old, chain))
           /\ \E k \in 1..Len(chain) :
                /\ At(new.frame, n) = At(old.frame, chain[k])
                /\ \/ /\ At(new.category, n) = At(old.category, chain[k])
                      /\ At(new.subcategory, n) = At(old.subcategory, chain[k])
                   \/ /\ transform.type = "collapse-function-subtree"
                      /\ At(new.subcategory, n) = 0
                      /\ At(new.category, n) \in
                           {DefaultCategory, At(old.category, chain[k])}

\* merge-function took the middle one of three stacks out: the lowest stack
\* kept its own frame and has the frame of the first stack above it.
C27_Witness ==
  /\ Transformed("merge-function")
  /\ \E s \in OldStacks :
       /\ Len(OldChain(s)) = 3
       /\ NewStackOf(s) # Null
       /\ FramesOf(new, NewChain(NewStackOf(s)))
            = <<At(old.frame, OldChain(s)[1]), At(old.frame, s)>>
       /\ At(old.frame, OldChain(s)[2]) # At(old.frame, OldChain(s)[1])
       /\ At(old.frame, OldChain(s)[2]) # At(old.frame, s)

(***************************************************************************)
(* funcHasRecursiveCall                                                    *)
(***************************************************************************)
funcHasRecursiveCall(thread_, implementation, funcToCheck) ==
  LET stackTable == thread_.stackTable
      RECURSIVE Loop(_, _)
      Loop(recursiveStacks, stackIndex) ==
        IF stackIndex >= stackTable.length THEN FALSE
        ELSE LET frameIndex == At(stackTable.frame, stackIndex)
                 prefix == At(stackTable.prefix, stackIndex)
                 funcIndex == At(thread_.frameTable.func, frameIndex)
                 recursivePrefix == prefix \in recursiveStacks
             IN IF funcToCheck = funcIndex
                  THEN IF recursivePrefix THEN TRUE
                       ELSE Loop(recursiveStacks \cup {stackIndex},
                                 stackIndex + 1)
                  ELSE IF recursivePrefix
                          /\ ~FUNC_MATCHES(implementation, thread_, funcIndex)
                    THEN Loop(recursiveStacks \cup {stackIndex}, stackIndex + 1)
                    ELSE Loop(recursiveStacks, stackIndex + 1)
  IN Loop({}, 0)

\* C28: funcHasRecursiveCall(thread, implementation, f) is true exactly when
\* collapseDirectRecursion(thread, f, implementation) removes at least one
\* stack; when it is false the collapse leaves the stack table and the
\* samples as they were.
C28_RecursiveCallIffCollapseRemoves ==
  Transformed("collapse-direct-recursion") =>
    LET recursive == funcHasRecursiveCall(oldThread, transform.implementation,
                                          transform.funcIndex)
    IN /\ recursive <=> new.length < old.length
       /\ ~recursive => (new = old /\ thread.samples = oldThread.samples)

\* The func is called once, a frame the filter hides is below it:
\* funcHasRecursiveCall is false and the collapse removed the hidden stack.
C28_Witness ==
  /\ Transformed("collapse-direct-recursion")
  /\ ~funcHasRecursiveCall(oldThread, transform.implementation,
                           transform.funcIndex)
  /\ old.length = 2
  /\ new.length = 1
  /\ At(old.prefix, 1) = 0
  /\ OldFunc(0) = transform.funcIndex
  /\ OldFunc(1) # transform.funcIndex

(***************************************************************************)
(* restoreAllFunctionsInCallNodePath                                       *)
(***************************************************************************)
\* A search that goes on under a stack that failed to match, one level
\* down the path.
restoreAllFunctionsInCallNodePathPastFailure(thread_, previousImplementationFilter, path) ==
  LET stackTable == thread_.stackTable
      RECURSIVE Loop(_, _)
      Loop(matchesUpToDepth, stackIndex) ==
        IF stackIndex >= stackTable.length THEN Null
        ELSE LET prefix == At(stackTable.prefix, stackIndex)
                 funcIndex == funcOfStack(thread_, stackIndex)
                 prefixPathDepth ==
                   IF prefix = Null THEN -1 ELSE MapGet(matchesUpToDepth, prefix)
                 pathDepth == IF prefixPathDepth = Undefined THEN 0
                              ELSE prefixPathDepth + 1
                 nextPathFuncIndex == At(path, pathDepth)
             IN IF nextPathFuncIndex = funcIndex
                  THEN IF pathDepth = Len(path) - 1 THEN stackIndex
                       ELSE Loop(MapSet(matchesUpToDepth, stackIndex, pathDepth),
                                 stackIndex + 1)
                  ELSE Loop(MapSet(matchesUpToDepth, stackIndex,
                                   IF prefixPathDepth = Undefined THEN -1
                                   ELSE prefixPathDepth),
                            stackIndex + 1)
      tipStackIndex == Loop(<<>>, 0)
  IN IF tipStackIndex = Null THEN <<>>
     ELSE callNodePathOfStack(thread_, tipStackIndex)

\* matchesUpToDepth holds a depth, null (NaN stands for it here, a depth
\* being an integer) or nothing at all for a stack the loop skipped; the
\* depth after nothing at all is undefined + 1, not a number.
restoreAllFunctionsInCallNodePath(thread_, previousImplementationFilter, path) ==
  LET stackTable == thread_.stackTable
      NoMatch == NaN - 1
      RECURSIVE Loop(_, _)
      Loop(matchesUpToDepth, stackIndex) ==
        IF stackIndex >= stackTable.length THEN Null
        ELSE LET prefix == At(stackTable.prefix, stackIndex)
                 funcIndex == funcOfStack(thread_, stackIndex)
                 prefixPathDepth ==
                   IF prefix = Null THEN -1 ELSE MapGet(matchesUpToDepth, prefix)
                 pathDepth == IF prefixPathDepth = Undefined THEN NaN
                              ELSE prefixPathDepth + 1
                 nextPathFuncIndex == At(path, pathDepth)
             IN IF prefixPathDepth = NoMatch
                  THEN Loop(matchesUpToDepth, stackIndex + 1)
                ELSE IF nextPathFuncIndex = funcIndex
                  THEN IF pathDepth = Len(path) - 1 THEN stackIndex
                       ELSE Loop(MapSet(matchesUpToDepth, stackIndex, pathDepth),
                                 stackIndex + 1)
                ELSE IF ~FUNC_MATCHES(previousImplementationFilter, thread_,
                                      funcIndex)
                  THEN Loop(MapSet(matchesUpToDepth, stackIndex,
                                   prefixPathDepth),
                            stackIndex + 1)
                ELSE Loop(MapSet(matchesUpToDepth, stackIndex, NoMatch),
                          stackIndex + 1)
      tipStackIndex == Loop(<<>>, 0)
  IN IF tipStackIndex = Null THEN <<>>
     ELSE callNodePathOfStack(thread_, tipStackIndex)

\* The call node path selected under an implementation filter is restored
\* in the loaded thread.
RestoreAllFunctionsInCallNodePath ==
  /\ pc = "loaded"
  /\ \E i \in Implementations, p \in CallNodePaths(thread) :
       /\ transform' = [type |-> "restore-all-functions",
                        implementation |-> i, callNodePath |-> p]
       /\ selectedPath' = p
       /\ returnedPath' = restoreAllFunctionsInCallNodePath(thread, i, p)
  /\ pc' = "restored"
  /\ applied' = applied + 1
  /\ UNCHANGED <<thread, oldThread, oldStackToNewStack, codecVars,
                 callNodeTable, callTree, zeeCallbacks, promises, messages>>

SpecRestore == Init /\ [][RestoreAllFunctionsInCallNodePath]_vars

\* C29: restoreAllFunctionsInCallNodePath(thread, filter, P) returns the
\* empty path if P is empty or the last element of P is matched at no stack,
\* and otherwise the call path from the root of the lowest-indexed stack at
\* which the last element of P is matched (no stack below a stack that
\* failed to match is one of them); when every func of P matches the filter,
\* a non-empty result filtered by the filter is P.
C29_RestoresPathOfFirstTip ==
  pc = "restored" =>
    LET tips == IF selectedPath = <<>> THEN {} ELSE PathTips
    IN /\ IF tips = {} THEN returnedPath = <<>>
          ELSE returnedPath =
                 OldPath(CHOOSE s \in tips : \A u \in tips : s <= u)
       /\ (/\ returnedPath # <<>>
           /\ \A k \in 1..Len(selectedPath) :
                FUNC_MATCHES(transform.implementation, thread, selectedPath[k]))
            => filterCallNodePathByImplementation(
                 thread, transform.implementation, returnedPath) = selectedPath

\* A path of one func selected under a filter that hides the root's func:
\* the restored path has both funcs.
C29_Witness ==
  /\ pc = "restored"
  /\ Len(selectedPath) = 1
  /\ Len(returnedPath) = 2
  /\ returnedPath[2] = selectedPath[1]
  /\ ~FUNC_MATCHES(transform.implementation, thread, returnedPath[1])
  /\ FUNC_MATCHES(transform.implementation, thread, returnedPath[2])

(***************************************************************************)
(* The callers of the compression worker.  zeeCallbacks holds, for each    *)
(* callbackID, the resolve and reject functions of a promise (the index of *)
(* the promise stands for both) or null.  promises holds, for each request *)
(* in the order the requests were made, the callbackID posted to its       *)
(* worker, the promise's state and value, how often its resolve or reject  *)
(* function was called and how many messages its worker has posted.        *)
(* messages holds the worker messages that are not delivered yet.  The     *)
(* data of a message names the request and counts the worker's messages.   *)
(***************************************************************************)
\* An onmessage handler that leaves the callbacks in place.
onmessageKeepsCallbacks(callbacks_, promises_, data) ==
  LET callbacks == At(callbacks_, data.callbackID)
  IN IF callbacks \notin {Null, Undefined}
       THEN [zeeCallbacks |-> callbacks_,
             promises |->
               [promises_ EXCEPT
                  ![callbacks + 1] =
                    [@ EXCEPT
                       !.calls = @ + 1,
                       !.state = IF promises_[callbacks + 1].state = "pending"
                                   THEN IF data.type = "success"
                                          THEN "resolved" ELSE "rejected"
                                   ELSE @,
                       !.value = IF promises_[callbacks + 1].state = "pending"
                                   THEN data.data ELSE @]]]
       ELSE [zeeCallbacks |-> callbacks_, promises |-> promises_]

\* zeeWorker.onmessage: the callbacks of the message's callbackID, if there
\* are any, are called with the message's data and replaced by null.  A
\* promise takes the first call of its resolve or reject function.
onmessage(callbacks_, promises_, data) ==
  LET callbacks == At(callbacks_, data.callbackID)
  IN IF callbacks \notin {Null, Undefined}
       THEN [zeeCallbacks |->
               [callbacks_ EXCEPT ![data.callbackID + 1] = Null],
             promises |->
               [promises_ EXCEPT
                  ![callbacks + 1] =
                    [@ EXCEPT
                       !.calls = @ + 1,
                       !.state = IF promises_[callbacks + 1].state = "pending"
                                   THEN IF data.type = "success"
                                          THEN "resolved" ELSE "rejected"
                                   ELSE @,
                       !.value = IF promises_[callbacks + 1].state = "pending"
                                   THEN data.data ELSE @]]]
       ELSE [zeeCallbacks |-> callbacks_, promises |-> promises_]

\* The promise executor of compress and decompress: the request is posted
\* with callbackID zeeCallbacks.length, then the callbacks are pushed.
postRequest(request) ==
  /\ pc = "worker"
  /\ Len(promises) < MaxRequests
  /\ promises' = Push(promises,
                      [request |-> request,
                       callbackID |-> Len(zeeCallbacks),
                       state |-> "pending", value |-> <<>>, calls |-> 0,
                       posted |-> 0])
  /\ zeeCallbacks' = Push(zeeCallbacks, Len(promises))
  /\ UNCHANGED <<thread, oldThread, transform, oldStackToNewStack, pc, applied,
                 codecVars, callNodeTable, callTree, selectedPath,
                 returnedPath, messages>>

Compress == postRequest("compress")

Decompress == postRequest("decompress")

\* The worker of a request posts a message with the callbackID it was
\* given, of type success or error.
WorkerPostMessage ==
  /\ pc = "worker"
  /\ LET RECURSIVE Posted(_)
         Posted(k) == IF k = 0 THEN 0 ELSE promises[k].posted + Posted(k - 1)
     IN Posted(Len(promises)) < MaxMessages
  /\ \E k \in 1..Len(promises), type \in {"success", "error"} :
       /\ promises' = [promises EXCEPT ![k].posted = @ + 1]
       /\ messages' = messages \cup
            {[callbackID |-> promises[k].callbackID, type |-> type,
              data |-> <<k, promises[k].posted + 1>>]}
  /\ UNCHANGED <<thread, oldThread, transform, oldStackToNewStack, pc, applied,
                 codecVars, callNodeTable, callTree, selectedPath,
                 returnedPath, zeeCallbacks>>

\* One of the posted messages, any of them, reaches onmessage.
WorkerOnMessage ==
  /\ pc = "worker"
  /\ \E data \in messages :
       /\ \E result \in {onmessage(zeeCallbacks, promises, data)} :
            /\ zeeCallbacks' = result.zeeCallbacks
            /\ promises' = result.promises
       /\ messages' = messages \ {data}
  /\ UNCHANGED <<thread, oldThread, transform, oldStackToNewStack, pc, applied,
                 codecVars, callNodeTable, callTree, selectedPath,
                 returnedPath>>

InitWorker ==
  /\ thread \in TreeThreads(0)
  /\ oldThread = thread
  /\ transform = NoTransform
  /\ oldStackToNewStack = NullMap
  /\ applied = 0
  /\ pc = "worker"
  /\ urlStack = <<>>
  /\ urlString = <<>>
  /\ parsedStack = <<>>
  /\ NothingElse

NextWorker ==
  \/ Compress
  \/ Decompress
  \/ WorkerPostMessage
  \/ WorkerOnMessage

SpecWorker == InitWorker /\ [][NextWorker]_vars

\* The number of the request whose worker posted the message.
RequestOf(data) == data.data[1]

\* Each request has a callbackID of its own; a promise that is not pending
\* was settled by a message of its own request, resolved by a success and
\* rejected by an error; no resolve or reject function was called twice.
SettledByOwnResponse ==
  /\ \A j, k \in 1..Len(promises) :
       promises[j].callbackID = promises[k].callbackID => j = k
  /\ \A k \in 1..Len(promises) :
       /\ promises[k].calls <= 1
       /\ promises[k].state = "pending" <=> promises[k].calls = 0
       /\ promises[k].state # "pending" =>
            \E type \in {"success", "error"} :
              /\ promises[k].state =
                   (IF type = "success" THEN "resolved" ELSE "rejected")
              /\ promises[k].value[1] = k

\* C30: with any number of compress and decompress requests in flight and
\* the workers' messages arriving in any order, each request gets a
\* callbackID no other request gets, a message settles only the promise of
\* the request with its callbackID (a success resolves it, an error rejects
\* it), every promise is settled at most once, and a message for a
\* callbackID whose promise is settled changes nothing.
C30_ResponseSettlesOwnRequestOnce ==
  [][/\ SettledByOwnResponse'
     /\ \A data \in messages \ messages' :
          LET k == RequestOf(data)
          IN /\ \A j \in 1..Len(promises) :
                  j # k => promises'[j] = promises[j]
             /\ promises[k].callbackID = data.callbackID
             /\ IF promises[k].state = "pending"
                  THEN /\ promises'[k].state =
                            (IF data.type = "success" THEN "resolved"
                             ELSE "rejected")
                       /\ promises'[k].value = data.data
                  ELSE /\ promises' = promises
                       /\ zeeCallbacks' = zeeCallbacks]_vars

\* A compress and a decompress request are made; the second was rejected
\* by its worker's second message, and the worker's first message then
\* found the callbacks gone; the first request is pending, with a message
\* for it on the way.
C30_Witness ==
  /\ Len(promises) = 2
  /\ promises[1].request # promises[2].request
  /\ promises[2].state = "rejected"
  /\ promises[2].value = <<2, 2>>
  /\ promises[2].posted = 2
  /\ \A data \in messages : RequestOf(data) = 1
  /\ messages # {}
  /\ promises[1].state = "pending"

====
